---------------------------- MODULE Spec2Model ----------------------------
(***************************************************************************)
(* A model of the CHIP-8 virtual machine of src/src/chip8.rs, of the key   *)
(* handling of src/src/input_handler.rs and of the main operating loop of  *)
(* src/src/main.rs.                                                        *)
(*                                                                         *)
(* Durations are integers in nanoseconds.  A value of the struct           *)
(* VirtualMachine is a record with the struct's field names; the handlers  *)
(* are operators from such a record to a result record                     *)
(*    [vm, deferred, cost, fatal]                                          *)
(* where deferred is the handler's `None`, cost the duration in its        *)
(* `Some(op_duration)` and fatal a panic (vm is then the machine at the    *)
(* moment of the panic).                                                   *)
(*                                                                         *)
(* The two big arrays are held by what they hold that is not zero: mem, a  *)
(* [u8; 4096], as the function from the addresses of its non-zero bytes to *)
(* those bytes, and fb, a [bool; 2048], as the set of the indexes of its   *)
(* true cells.  Each array has exactly one such value, so two arrays are   *)
(* equal exactly when these are.                                           *)
(***************************************************************************)
EXTENDS Integers, Sequences, FiniteSets, TLC

(***************************************************************************)
(* Program constants                                                       *)
(***************************************************************************)
MAX_FRAME_TIME == 16666667

KEYUP_RELEASE_DURATION == 30000000

MEM_LEN == 4096

PROGRAM_START == 512

FONT_DATA ==
  << 240, 144, 144, 144, 240,
      32,  96,  32,  32, 112,
     240,  16, 240, 128, 240,
     240,  16, 240,  16, 240,
     144, 144, 240,  16,  16,
     240, 128, 240,  16, 240,
     240, 128, 240, 144, 240,
     240,  16,  32,  64,  64,
     240, 144, 240, 144, 240,
     240, 144, 240,  16, 240,
     240, 144, 240, 144, 144,
     224, 144, 224, 144, 224,
     240, 128, 128, 128, 240,
     224, 144, 144, 144, 224,
     240, 128, 240, 128, 240,
     240, 128, 240, 128, 128 >>

VALID_KEYS == 0 .. 15

(***************************************************************************)
(* Integer helpers: the u8 / u16 operations the code uses                  *)
(***************************************************************************)
Min(a, b) == IF a < b THEN a ELSE b

Bit(w, k) == (w \div (2 ^ k)) % 2

BitAnd(a, b) ==
  LET bit(k) == Bit(a, k) * Bit(b, k)
  IN  bit(0) + 2 * bit(1) + 4 * bit(2) + 8 * bit(3)
      + 16 * bit(4) + 32 * bit(5) + 64 * bit(6) + 128 * bit(7)

BitOr(a, b) ==
  LET bit(k) == IF Bit(a, k) + Bit(b, k) > 0 THEN 1 ELSE 0
  IN  bit(0) + 2 * bit(1) + 4 * bit(2) + 8 * bit(3)
      + 16 * bit(4) + 32 * bit(5) + 64 * bit(6) + 128 * bit(7)

BitXor(a, b) ==
  LET bit(k) == (Bit(a, k) + Bit(b, k)) % 2
  IN  bit(0) + 2 * bit(1) + 4 * bit(2) + 8 * bit(3)
      + 16 * bit(4) + 32 * bit(5) + 64 * bit(6) + 128 * bit(7)

\* u8::reverse_bits
reverse_bits(b) ==
  128 * Bit(b, 0) + 64 * Bit(b, 1) + 32 * Bit(b, 2) + 16 * Bit(b, 3)
  + 8 * Bit(b, 4) + 4 * Bit(b, 5) + 2 * Bit(b, 6) + Bit(b, 7)

\* u16::swap_bytes
swap_bytes(w) == (w % 256) * 256 + (w \div 256)

\* u16::wrapping_add
wrapping_add16(a, b) == (a + b) % 65536

\* u8::overflowing_add: <<result, overflowed>>
overflowing_add(a, b) == << (a + b) % 256, a + b > 255 >>

\* u8::overflowing_sub: <<result, overflowed>>
overflowing_sub(a, b) == << (a - b + 256) % 256, a < b >>

(***************************************************************************)
(* The arrays mem and fb                                                   *)
(***************************************************************************)
\* mem[a], for a in bounds
Load(mem, a) == IF a \in DOMAIN mem THEN mem[a] ELSE 0

\* mem[a] = b, for a in bounds
Store(mem, a, b) ==
  [c \in IF b = 0 THEN DOMAIN mem \ {a} ELSE DOMAIN mem \cup {a} |->
     IF c = a THEN b ELSE mem[c]]

\* the array with the bytes bytes[a] at the addresses a of the set at
ArrayOf(at, bytes) == [a \in {c \in at : bytes[c] # 0} |-> bytes[a]]

\* a frame buffer with every cell false
AllOff == {}

(***************************************************************************)
(* Handler results                                                         *)
(***************************************************************************)
\* Duration::from_micros((base * execution_speed_multiple) as u64): the
\* multiple is a fraction num/den that f32 holds exactly, so the product is
\* exact and the cast truncates it.
Micros(self, base) ==
  ((base * self.settings.execution_speed_multiple.num)
      \div self.settings.execution_speed_multiple.den) * 1000

\* A deferral test that leaves the cost of the operation out: an operation
\* would run whenever the frame has time left, however long it takes.
OverBudgetBeforeCost(self, op_duration) == self.frame_time > MAX_FRAME_TIME

\* self.frame_time.saturating_add(op_duration) > MAX_FRAME_TIME
OverBudget(self, op_duration) == self.frame_time + op_duration > MAX_FRAME_TIME

\* return None
None(self) == [vm |-> self, deferred |-> TRUE, cost |-> 0, fatal |-> FALSE]

\* Some(op_duration)
Some(self, op_duration) ==
  [vm |-> self, deferred |-> FALSE, cost |-> op_duration, fatal |-> FALSE]

\* panic!, a failed expect, or an index out of bounds
Panic(self) == [vm |-> self, deferred |-> FALSE, cost |-> 0, fatal |-> TRUE]

(***************************************************************************)
(* Operation functions                                                     *)
(***************************************************************************)
invalid_operation(self, opcode) == Panic(self)

call_routine(self, nnn) ==
  LET op_duration == Micros(self, 100)
  IN  IF OverBudget(self, op_duration) THEN None(self)
      ELSE Some([self EXCEPT !.pc = @ + 2], op_duration)

\* A clear whose loop stops one cell short of the end of the frame buffer.
clear_display_but_last(self) ==
  LET op_duration == Micros(self, 109)
  IN  IF OverBudget(self, op_duration) THEN None(self)
      ELSE Some([self EXCEPT !.fb = @ \cap {2047},
                             !.pc = @ + 2], op_duration)

clear_display(self) ==
  LET op_duration == Micros(self, 109)
  IN  IF OverBudget(self, op_duration) THEN None(self)
      ELSE Some([self EXCEPT !.fb = AllOff,
                             !.pc = @ + 2], op_duration)

\* A return that takes an empty stack for a return to address 0.
subroutine_return_to_zero(self) ==
  LET op_duration == Micros(self, 105)
  IN  IF OverBudget(self, op_duration) THEN None(self)
      ELSE IF Len(self.stack) = 0
      THEN Some([self EXCEPT !.pc = 2], op_duration)
      ELSE Some([self EXCEPT !.pc = self.stack[Len(self.stack)] + 2,
                             !.stack = SubSeq(@, 1, Len(@) - 1)], op_duration)

subroutine_return(self) ==
  LET op_duration == Micros(self, 105)
  IN  IF OverBudget(self, op_duration) THEN None(self)
      ELSE IF Len(self.stack) = 0 THEN Panic(self)
      ELSE Some([self EXCEPT !.pc = self.stack[Len(self.stack)] + 2,
                             !.stack = SubSeq(@, 1, Len(@) - 1)], op_duration)

\* A jump that lands on the instruction after its target.
jump_past_nnn(self, nnn) ==
  LET op_duration == Micros(self, 105)
  IN  IF OverBudget(self, op_duration) THEN None(self)
      ELSE Some([self EXCEPT !.pc = nnn + 2], op_duration)

jump_to_nnn(self, nnn) ==
  LET op_duration == Micros(self, 105)
  IN  IF OverBudget(self, op_duration) THEN None(self)
      ELSE Some([self EXCEPT !.pc = nnn], op_duration)

\* A call that pushes the address of the next instruction.
call_subroutine_pushing_next(self, nnn) ==
  LET op_duration == Micros(self, 105)
  IN  IF OverBudget(self, op_duration) THEN None(self)
      ELSE Some([self EXCEPT !.stack = Append(@, self.pc + 2), !.pc = nnn],
                op_duration)

call_subroutine(self, nnn) ==
  LET op_duration == Micros(self, 105)
  IN  IF OverBudget(self, op_duration) THEN None(self)
      ELSE Some([self EXCEPT !.stack = Append(@, self.pc), !.pc = nnn],
                op_duration)

skip_if_eq_nn(self, x, nn) ==
  LET op_duration == Micros(self, 61)
  IN  IF OverBudget(self, op_duration) THEN None(self)
      ELSE Some([self EXCEPT !.pc = IF self.v[x] = nn THEN @ + 4 ELSE @ + 2],
                op_duration)

skip_if_neq_nn(self, x, nn) ==
  LET op_duration == Micros(self, 61)
  IN  IF OverBudget(self, op_duration) THEN None(self)
      ELSE Some([self EXCEPT !.pc = IF self.v[x] # nn THEN @ + 4 ELSE @ + 2],
                op_duration)

skip_if_eq(self, x, y) ==
  LET op_duration == Micros(self, 61)
  IN  IF OverBudget(self, op_duration) THEN None(self)
      ELSE Some([self EXCEPT
                   !.pc = IF self.v[x] = self.v[y] THEN @ + 4 ELSE @ + 2],
                op_duration)

set_vx_to_nn(self, x, nn) ==
  LET op_duration == Micros(self, 27)
  IN  IF OverBudget(self, op_duration) THEN None(self)
      ELSE Some([self EXCEPT !.v[x] = nn, !.pc = @ + 2], op_duration)

add_nn_to_vx(self, x, nn) ==
  LET op_duration == Micros(self, 45)
  IN  IF OverBudget(self, op_duration) THEN None(self)
      ELSE Some([self EXCEPT !.v[x] = (@ + nn) % 256, !.pc = @ + 2],
                op_duration)

clone(self, x, y) ==
  LET op_duration == Micros(self, 45)
  IN  IF OverBudget(self, op_duration) THEN None(self)
      ELSE Some([self EXCEPT !.v[x] = self.v[y], !.pc = @ + 2], op_duration)

\* the three logic operations end alike: the quirk clears VF after the result
LogicQuirk(self, v) ==
  IF self.settings.or_and_xor_quirk THEN [v EXCEPT ![15] = 0] ELSE v

\* An OR that clears VF whatever the settings say.
or_clearing_flag(self, x, y) ==
  LET op_duration == Micros(self, 200)
  IN  IF OverBudget(self, op_duration) THEN None(self)
      ELSE Some([self EXCEPT
                   !.v = [[@ EXCEPT ![x] = BitOr(@, self.v[y])]
                             EXCEPT ![15] = 0],
                   !.pc = @ + 2], op_duration)

or(self, x, y) ==
  LET op_duration == Micros(self, 200)
  IN  IF OverBudget(self, op_duration) THEN None(self)
      ELSE Some([self EXCEPT
                   !.v = LogicQuirk(self, [@ EXCEPT ![x] = BitOr(@, self.v[y])]),
                   !.pc = @ + 2], op_duration)

and(self, x, y) ==
  LET op_duration == Micros(self, 200)
  IN  IF OverBudget(self, op_duration) THEN None(self)
      ELSE Some([self EXCEPT
                   !.v = LogicQuirk(self, [@ EXCEPT ![x] = BitAnd(@, self.v[y])]),
                   !.pc = @ + 2], op_duration)

xor(self, x, y) ==
  LET op_duration == Micros(self, 200)
  IN  IF OverBudget(self, op_duration) THEN None(self)
      ELSE Some([self EXCEPT
                   !.v = LogicQuirk(self, [@ EXCEPT ![x] = BitXor(@, self.v[y])]),
                   !.pc = @ + 2], op_duration)

\* An addition whose carry is that of the seven low bits.
add_with_half_carry(self, x, y) ==
  LET op_duration == Micros(self, 45)
      half == (self.v[x] % 128) + (self.v[y] % 128)
      result == overflowing_add(self.v[x], self.v[y])
  IN  IF OverBudget(self, op_duration) THEN None(self)
      ELSE Some([self EXCEPT
                   !.v = [[@ EXCEPT ![x] = result[1]]
                             EXCEPT ![15] = IF half > 127 THEN 1 ELSE 0],
                   !.pc = @ + 2], op_duration)

add(self, x, y) ==
  LET op_duration == Micros(self, 45)
      result == overflowing_add(self.v[x], self.v[y])
  IN  IF OverBudget(self, op_duration) THEN None(self)
      ELSE Some([self EXCEPT
                   !.v = [[@ EXCEPT ![x] = result[1]]
                             EXCEPT ![15] = IF result[2] THEN 1 ELSE 0],
                   !.pc = @ + 2], op_duration)

\* A subtraction whose flag is the borrow itself: 1 when Vx < Vy.
subtract_with_borrow_flag(self, x, y) ==
  LET op_duration == Micros(self, 200)
      result == overflowing_sub(self.v[x], self.v[y])
  IN  IF OverBudget(self, op_duration) THEN None(self)
      ELSE Some([self EXCEPT
                   !.v = [[@ EXCEPT ![x] = result[1]]
                             EXCEPT ![15] = IF result[2] THEN 1 ELSE 0],
                   !.pc = @ + 2], op_duration)

subtract_vy_from_vx(self, x, y) ==
  LET op_duration == Micros(self, 200)
      result == overflowing_sub(self.v[x], self.v[y])
  IN  IF OverBudget(self, op_duration) THEN None(self)
      ELSE Some([self EXCEPT
                   !.v = [[@ EXCEPT ![x] = result[1]]
                             EXCEPT ![15] = IF result[2] THEN 0 ELSE 1],
                   !.pc = @ + 2], op_duration)

\* A right shift that always shifts Vx in place, whatever the settings say.
shift_right_in_place(self, x, y) ==
  LET op_duration == Micros(self, 200)
      vx == self.v[x]
      bit_shifted_out == BitAnd(vx, 1)
  IN  IF OverBudget(self, op_duration) THEN None(self)
      ELSE Some([self EXCEPT
                   !.v = [[@ EXCEPT ![x] = vx \div 2]
                             EXCEPT ![15] = bit_shifted_out],
                   !.pc = @ + 2], op_duration)

shift_right(self, x, y) ==
  LET op_duration == Micros(self, 200)
      vx == IF ~self.settings.shift_quirk THEN self.v[y] ELSE self.v[x]
      bit_shifted_out == BitAnd(vx, 1)
  IN  IF OverBudget(self, op_duration) THEN None(self)
      ELSE Some([self EXCEPT
                   !.v = [[@ EXCEPT ![x] = vx \div 2]
                             EXCEPT ![15] = bit_shifted_out],
                   !.pc = @ + 2], op_duration)

subtract_vx_from_vy(self, x, y) ==
  LET op_duration == Micros(self, 200)
      result == overflowing_sub(self.v[y], self.v[x])
  IN  IF OverBudget(self, op_duration) THEN None(self)
      ELSE Some([self EXCEPT
                   !.v = [[@ EXCEPT ![x] = result[1]]
                             EXCEPT ![15] = IF result[2] THEN 0 ELSE 1],
                   !.pc = @ + 2], op_duration)

\* A shift that writes the flag before the shifted value.
shift_left_flag_first(self, x, y) ==
  LET op_duration == Micros(self, 200)
      vx == IF ~self.settings.shift_quirk THEN self.v[y] ELSE self.v[x]
      bit_shifted_out == BitAnd(vx, 128) \div 128
  IN  IF OverBudget(self, op_duration) THEN None(self)
      ELSE Some([self EXCEPT
                   !.v = [[@ EXCEPT ![15] = bit_shifted_out]
                             EXCEPT ![x] = (vx * 2) % 256],
                   !.pc = @ + 2], op_duration)

shift_left(self, x, y) ==
  LET op_duration == Micros(self, 200)
      vx == IF ~self.settings.shift_quirk THEN self.v[y] ELSE self.v[x]
      bit_shifted_out == BitAnd(vx, 128) \div 128
  IN  IF OverBudget(self, op_duration) THEN None(self)
      ELSE Some([self EXCEPT
                   !.v = [[@ EXCEPT ![x] = (vx * 2) % 256]
                             EXCEPT ![15] = bit_shifted_out],
                   !.pc = @ + 2], op_duration)

skip_if_neq(self, x, y) ==
  LET op_duration == Micros(self, 61)
  IN  IF OverBudget(self, op_duration) THEN None(self)
      ELSE Some([self EXCEPT
                   !.pc = IF self.v[x] # self.v[y] THEN @ + 4 ELSE @ + 2],
                op_duration)

set_i_to_nnn(self, nnn) ==
  LET op_duration == Micros(self, 55)
  IN  IF OverBudget(self, op_duration) THEN None(self)
      ELSE Some([self EXCEPT !.i = nnn, !.pc = @ + 2], op_duration)

\* A jump that keeps the sum within the 12 bits of an address.
jump_within_memory(self, nnn) ==
  LET op_duration == Micros(self, 105)
      x == swap_bytes(nnn - (nnn % 256))
      offset == IF self.settings.jump_offset_quirk THEN self.v[x] ELSE self.v[0]
  IN  IF OverBudget(self, op_duration) THEN None(self)
      ELSE Some([self EXCEPT !.pc = (nnn + offset) % 4096], op_duration)

jump_to_v0_plus_nnn(self, nnn) ==
  LET op_duration == Micros(self, 105)
      x == swap_bytes(nnn - (nnn % 256))
  IN  IF OverBudget(self, op_duration) THEN None(self)
      ELSE IF self.settings.jump_offset_quirk
           THEN Some([self EXCEPT !.pc = wrapping_add16(nnn, self.v[x])],
                     op_duration)
           ELSE Some([self EXCEPT !.pc = wrapping_add16(nnn, self.v[0])],
                     op_duration)

\* A Cxnn that ORs the random byte into nn.
random_or_nn(self, x, nn, random) ==
  LET op_duration == Micros(self, 164)
  IN  IF OverBudget(self, op_duration) THEN None(self)
      ELSE Some([self EXCEPT !.v[x] = BitOr(nn, random), !.pc = @ + 2],
                op_duration)

\* random is the byte random::<u8>() returned
random_and_nn(self, x, nn, random) ==
  LET op_duration == Micros(self, 164)
  IN  IF OverBudget(self, op_duration) THEN None(self)
      ELSE Some([self EXCEPT !.v[x] = BitAnd(nn, random), !.pc = @ + 2],
                op_duration)

\* Loops that turn the sprite's pixels on, where the code flips them.
get_sprite_rows_setting_pixels(self, x, y, n) ==
  LET visited == {current_row \in 0 .. n - 1 : ~(y + current_row > 31)}
      drawn == {current_row \in visited : self.i + current_row < MEM_LEN}
      sprite_row(current_row) ==
        reverse_bits(Load(self.mem, self.i + current_row))
      set ==
        UNION {{(y + current_row) * 64 + (x + current_pixel) :
                  current_pixel \in
                    {c \in 0 .. 7 :
                       /\ ~(x + c > 63)
                       /\ (sprite_row(current_row) \div (2 ^ c)) % 2 = 1}} :
               current_row \in drawn}
  IN  [fb |-> self.fb \cup set,
       collision |-> self.fb \cap set # {},
       fatal |-> \E current_row \in visited : ~(self.i + current_row < MEM_LEN)]

\* Loops that take the rows as they are stored, without reverse_bits: the
\* least significant bit of a row leftmost.
get_sprite_rows_unreversed(self, x, y, n) ==
  LET visited == {current_row \in 0 .. n - 1 : ~(y + current_row > 31)}
      drawn == {current_row \in visited : self.i + current_row < MEM_LEN}
      sprite_row(current_row) == Load(self.mem, self.i + current_row)
      flipped ==
        UNION {{(y + current_row) * 64 + (x + current_pixel) :
                  current_pixel \in
                    {c \in 0 .. 7 :
                       /\ ~(x + c > 63)
                       /\ (sprite_row(current_row) \div (2 ^ c)) % 2 = 1}} :
               current_row \in drawn}
  IN  [fb |-> (self.fb \ flipped) \cup (flipped \ self.fb),
       collision |-> self.fb \cap flipped # {},
       fatal |-> \E current_row \in visited : ~(self.i + current_row < MEM_LEN)]

\* The two loops of draw_sprite, from start position (x, y).  The row loop
\* visits current_row = 0, 1, .. below n until y + current_row > 31; it
\* panics at the first visited row whose byte self.mem[i + current_row] is
\* out of bounds, the rows before it being drawn.  The pixel loop visits
\* current_pixel = 0 .. 7 until x + current_pixel > 63.  Every frame buffer
\* cell is visited at most once, so the loops leave each visited cell
\* flipped where its sprite pixel is 1, and collide where such a cell was on.
\* The result is [fb, collision, fatal].
get_sprite_rows(self, x, y, n) ==
  LET visited == {current_row \in 0 .. n - 1 : ~(y + current_row > 31)}
      drawn == {current_row \in visited : self.i + current_row < MEM_LEN}
      sprite_row(current_row) ==
        reverse_bits(Load(self.mem, self.i + current_row))
      sprite_pixel(current_row, current_pixel) ==
        (sprite_row(current_row) \div (2 ^ current_pixel)) % 2
      fb_pixel_index(current_row, current_pixel) ==
        (y + current_row) * 64 + (x + current_pixel)
      flipped ==
        UNION {{fb_pixel_index(current_row, current_pixel) :
                  current_pixel \in
                    {c \in 0 .. 7 : /\ ~(x + c > 63)
                                    /\ sprite_pixel(current_row, c) = 1}} :
               current_row \in drawn}
  IN  [fb |-> (self.fb \ flipped) \cup (flipped \ self.fb),
       collision |-> self.fb \cap flipped # {},
       fatal |-> \E current_row \in visited : ~(self.i + current_row < MEM_LEN)]

\* A draw that sets VF on a collision and leaves it alone without one.
draw_sprite_sticky_flag(self, x, y, n) ==
  LET op_duration == Micros(self, 10734)
      x0 == IF self.settings.sprite_wrapping_quirk
            THEN self.v[x] % 64 ELSE self.v[x]
      y0 == IF self.settings.sprite_wrapping_quirk
            THEN self.v[y] % 32 ELSE self.v[y]
      drawn == get_sprite_rows(self, x0, y0, n)
  IN  IF OverBudget(self, op_duration) THEN None(self)
      ELSE IF drawn.fatal THEN Panic([self EXCEPT !.fb = drawn.fb])
      ELSE Some([self EXCEPT !.fb = drawn.fb,
                             !.v[15] = IF drawn.collision THEN 1 ELSE @,
                             !.pc = @ + 2], op_duration)

\* A draw that reduces the start position whatever the settings say.
draw_sprite_wrapping_always(self, x, y, n) ==
  LET op_duration == Micros(self, 10734)
      drawn == get_sprite_rows(self, self.v[x] % 64, self.v[y] % 32, n)
  IN  IF OverBudget(self, op_duration) THEN None(self)
      ELSE IF drawn.fatal THEN Panic([self EXCEPT !.fb = drawn.fb])
      ELSE Some([self EXCEPT !.fb = drawn.fb,
                             !.v[15] = IF drawn.collision THEN 1 ELSE 0,
                             !.pc = @ + 2], op_duration)

draw_sprite(self, x, y, n) ==
  LET op_duration == Micros(self, 10734)
      x0 == IF self.settings.sprite_wrapping_quirk
            THEN self.v[x] % 64 ELSE self.v[x]
      y0 == IF self.settings.sprite_wrapping_quirk
            THEN self.v[y] % 32 ELSE self.v[y]
      drawn == get_sprite_rows(self, x0, y0, n)
  IN  IF OverBudget(self, op_duration) THEN None(self)
      ELSE IF drawn.fatal THEN Panic([self EXCEPT !.fb = drawn.fb])
      ELSE Some([self EXCEPT !.fb = drawn.fb,
                             !.v[15] = IF drawn.collision THEN 1 ELSE 0,
                             !.pc = @ + 2], op_duration)

\* A skip that consults the shadow flag of the key, not its current flag.
skip_if_released(self, x) ==
  LET op_duration == Micros(self, 73)
      key == BitAnd(self.v[x], 15)
  IN  IF OverBudget(self, op_duration) THEN None(self)
      ELSE Some([self EXCEPT
                   !.pc = IF self.keypad_shadow[key] THEN @ + 4 ELSE @ + 2],
                op_duration)

skip_if_pressed(self, x) ==
  LET op_duration == Micros(self, 73)
      key == BitAnd(self.v[x], 15)
  IN  IF OverBudget(self, op_duration) THEN None(self)
      ELSE Some([self EXCEPT !.pc = IF self.keypad[key] THEN @ + 4 ELSE @ + 2],
                op_duration)

skip_if_not_pressed(self, x) ==
  LET op_duration == Micros(self, 73)
      key == BitAnd(self.v[x], 15)
  IN  IF OverBudget(self, op_duration) THEN None(self)
      ELSE Some([self EXCEPT !.pc = IF ~self.keypad[key] THEN @ + 4 ELSE @ + 2],
                op_duration)

clone_dt_into_vx(self, x) ==
  LET op_duration == Micros(self, 27)
  IN  IF OverBudget(self, op_duration) THEN None(self)
      ELSE Some([self EXCEPT !.v[x] = self.delay_timer, !.pc = @ + 2],
                op_duration)

\* The keys that are down: a wait that ends on the press, not the release.
PressedKeys(self) == {key \in 0 .. 15 : self.keypad[key]}

\* the keys the loop of store_keypress stops at
ReleasedKeys(self) ==
  {key \in 0 .. 15 : self.keypad_shadow[key] /\ ~self.keypad[key]}

\* A wait that takes the last released key of the keypad, not the first.
store_last_keypress(self, x) ==
  LET op_duration == Micros(self, 200)
  IN  IF OverBudget(self, op_duration) THEN None(self)
      ELSE IF ReleasedKeys(self) # {}
           THEN LET key == CHOOSE k \in ReleasedKeys(self) :
                             \A j \in ReleasedKeys(self) : k >= j
                IN  Some([self EXCEPT !.v[x] = key, !.pc = @ + 2], op_duration)
           ELSE Some(self, op_duration)

store_keypress(self, x) ==
  LET op_duration == Micros(self, 200)
  IN  IF OverBudget(self, op_duration) THEN None(self)
      ELSE IF ReleasedKeys(self) # {}
           THEN LET key == CHOOSE k \in ReleasedKeys(self) :
                             \A j \in ReleasedKeys(self) : k <= j
                IN  Some([self EXCEPT !.v[x] = key, !.pc = @ + 2], op_duration)
           ELSE Some(self, op_duration)

set_delay_timer(self, x) ==
  LET op_duration == Micros(self, 45)
  IN  IF OverBudget(self, op_duration) THEN None(self)
      ELSE Some([self EXCEPT !.delay_timer = self.v[x], !.pc = @ + 2],
                op_duration)

set_sound_timer(self, x) ==
  LET op_duration == Micros(self, 45)
  IN  IF OverBudget(self, op_duration) THEN None(self)
      ELSE Some([self EXCEPT !.sound_timer = self.v[x], !.pc = @ + 2],
                op_duration)

add_vx_to_i(self, x) ==
  LET op_duration == Micros(self, 86)
  IN  IF OverBudget(self, op_duration) THEN None(self)
      ELSE Some([self EXCEPT !.i = wrapping_add16(@, self.v[x]), !.pc = @ + 2],
                op_duration)

set_i_to_font_sprite_location(self, x) ==
  LET op_duration == Micros(self, 91)
      font_char == BitAnd(self.v[x], 15)
  IN  IF OverBudget(self, op_duration) THEN None(self)
      ELSE Some([self EXCEPT !.i = self.font_locations[font_char],
                             !.pc = @ + 2], op_duration)

\* A conversion that stores the ones before the tens.
bcd_vx_ones_before_tens(self, x) ==
  LET op_duration == Micros(self, 927)
      i == self.i
      s1 == [self EXCEPT !.mem = Store(@, i, self.v[x] \div 100)]
      s2 == [s1 EXCEPT !.mem = Store(@, i + 1, (self.v[x] % 100) % 10)]
      s3 == [s2 EXCEPT !.mem = Store(@, i + 2, (self.v[x] \div 10) % 10)]
  IN  IF OverBudget(self, op_duration) THEN None(self)
      ELSE IF i >= MEM_LEN THEN Panic(self)
      ELSE IF i + 1 >= MEM_LEN THEN Panic(s1)
      ELSE IF i + 2 >= MEM_LEN THEN Panic(s2)
      ELSE Some([s3 EXCEPT !.pc = @ + 2], op_duration)

\* the three stores of bcd_vx happen in order; an index out of bounds
\* panics after the stores before it
bcd_vx(self, x) ==
  LET op_duration == Micros(self, 927)
      i == self.i
      s1 == [self EXCEPT !.mem = Store(@, i, self.v[x] \div 100)]
      s2 == [s1 EXCEPT !.mem = Store(@, i + 1, (self.v[x] \div 10) % 10)]
      s3 == [s2 EXCEPT !.mem = Store(@, i + 2, (self.v[x] % 100) % 10)]
  IN  IF OverBudget(self, op_duration) THEN None(self)
      ELSE IF i >= MEM_LEN THEN Panic(self)
      ELSE IF i + 1 >= MEM_LEN THEN Panic(s1)
      ELSE IF i + 2 >= MEM_LEN THEN Panic(s2)
      ELSE Some([s3 EXCEPT !.pc = @ + 2], op_duration)

\* The while loop of dump_registers and load_registers visits register =
\* 0 .. x with i_offset = self.i + register, and panics at the first one
\* whose i_offset is out of bounds: these are the registers it transfers.
Transferred(self, x) == {register \in 0 .. x : self.i + register < MEM_LEN}

\* A dump whose loop stops before Vx: while x > register.
dump_registers_below_x(self, x) ==
  LET op_duration == Micros(self, 605)
      below == {register \in Transferred(self, x) : register < x}
      done == [self EXCEPT
                 !.mem = ArrayOf(0 .. MEM_LEN - 1,
                                 [a \in 0 .. MEM_LEN - 1 |->
                                    IF a - self.i \in below
                                    THEN self.v[a - self.i]
                                    ELSE Load(self.mem, a)]),
                 !.i = IF self.settings.mem_quirk
                       THEN @ + Cardinality(below) ELSE @]
  IN  IF OverBudget(self, op_duration) THEN None(self)
      ELSE IF Transferred(self, x) # 0 .. x THEN Panic(done)
      ELSE Some([done EXCEPT !.pc = @ + 2], op_duration)

dump_registers(self, x) ==
  LET op_duration == Micros(self, 605)
      done == [self EXCEPT
                 !.mem = ArrayOf(0 .. MEM_LEN - 1,
                                 [a \in 0 .. MEM_LEN - 1 |->
                                    IF a - self.i \in Transferred(self, x)
                                    THEN self.v[a - self.i]
                                    ELSE Load(self.mem, a)]),
                 !.i = IF self.settings.mem_quirk
                       THEN @ + Cardinality(Transferred(self, x)) ELSE @]
  IN  IF OverBudget(self, op_duration) THEN None(self)
      ELSE IF Transferred(self, x) # 0 .. x THEN Panic(done)
      ELSE Some([done EXCEPT !.pc = @ + 2], op_duration)

load_registers(self, x) ==
  LET op_duration == Micros(self, 605)
      done == [self EXCEPT
                 !.v = [register \in 0 .. 15 |->
                          IF register \in Transferred(self, x)
                          THEN Load(self.mem, self.i + register)
                          ELSE self.v[register]],
                 !.i = IF self.settings.mem_quirk
                       THEN @ + Cardinality(Transferred(self, x)) ELSE @]
  IN  IF OverBudget(self, op_duration) THEN None(self)
      ELSE IF Transferred(self, x) # 0 .. x THEN Panic(done)
      ELSE Some([done EXCEPT !.pc = @ + 2], op_duration)

(***************************************************************************)
(* Fetch, decode, dispatch                                                 *)
(***************************************************************************)
\* fetch_opcode panics when the second byte is past the end of memory
FetchInBounds(self) == self.pc + 1 < MEM_LEN

\* A fetch that takes the first byte for the low byte of the opcode.
fetch_opcode_little_endian(self) ==
  Load(self.mem, self.pc) + swap_bytes(Load(self.mem, self.pc + 1))

fetch_opcode(self) ==
  swap_bytes(Load(self.mem, self.pc)) + Load(self.mem, self.pc + 1)

\* random is the byte Cxnn draws
decode_opcode_and_execute_operation(self, opcode, random) ==
  LET n    == opcode % 16
      nn   == opcode % 256
      nnn  == opcode % 4096
      x    == swap_bytes((opcode % 4096) - (opcode % 256))
      y    == (opcode % 256) \div 16
      high == opcode \div 4096
  IN  CASE high = 0 ->
             CASE nn = 0   -> call_routine(self, nnn)
               [] nn = 224 -> clear_display(self)
               [] nn = 238 -> subroutine_return(self)
               [] OTHER    -> invalid_operation(self, opcode)
        [] high = 1  -> jump_to_nnn(self, nnn)
        [] high = 2  -> call_subroutine(self, nnn)
        [] high = 3  -> skip_if_eq_nn(self, x, nn)
        [] high = 4  -> skip_if_neq_nn(self, x, nn)
        [] high = 5  -> skip_if_eq(self, x, y)
        [] high = 6  -> set_vx_to_nn(self, x, nn)
        [] high = 7  -> add_nn_to_vx(self, x, nn)
        [] high = 8  ->
             CASE n = 1  -> or(self, x, y)
               [] n = 2  -> and(self, x, y)
               [] n = 3  -> xor(self, x, y)
               [] n = 4  -> add(self, x, y)
               [] n = 5  -> subtract_vy_from_vx(self, x, y)
               [] n = 6  -> shift_right(self, x, y)
               [] n = 7  -> subtract_vx_from_vy(self, x, y)
               [] n = 14 -> shift_left(self, x, y)
               [] OTHER  -> clone(self, x, y)
        [] high = 9  -> skip_if_neq(self, x, y)
        [] high = 10 -> set_i_to_nnn(self, nnn)
        [] high = 11 -> jump_to_v0_plus_nnn(self, nnn)
        [] high = 12 -> random_and_nn(self, x, nn, random)
        [] high = 13 -> draw_sprite(self, x, y, n)
        [] high = 14 ->
             CASE nn = 158 -> skip_if_pressed(self, x)
               [] nn = 161 -> skip_if_not_pressed(self, x)
               [] OTHER    -> invalid_operation(self, opcode)
        [] OTHER ->
             CASE nn = 7   -> clone_dt_into_vx(self, x)
               [] nn = 10  -> store_keypress(self, x)
               [] nn = 21  -> set_delay_timer(self, x)
               [] nn = 24  -> set_sound_timer(self, x)
               [] nn = 30  -> add_vx_to_i(self, x)
               [] nn = 41  -> set_i_to_font_sprite_location(self, x)
               [] nn = 51  -> bcd_vx(self, x)
               [] nn = 85  -> dump_registers(self, x)
               [] nn = 101 -> load_registers(self, x)
               [] OTHER    -> invalid_operation(self, opcode)

(***************************************************************************)
(* The operation cycle                                                     *)
(***************************************************************************)
\* The loop over keypad_shadow: a shadow flag is cleared once the release
\* duration has passed on the key's timer.  timers[key] is what
\* keypad_shadow_timers[key].elapsed() returns, saturated at the duration.
ExpireShadows(keypad_shadow, timers) ==
  [key \in 0 .. 15 |->
     IF keypad_shadow[key] /\ timers[key] >= KEYUP_RELEASE_DURATION
     THEN FALSE ELSE keypad_shadow[key]]

\* An end of the frame that replays the ticks of every budget the frame time
\* spans instead of one.
EndFrameReplayingTicks(self) ==
  IF self.frame_time > MAX_FRAME_TIME
  THEN LET ticks == self.frame_time \div MAX_FRAME_TIME
       IN  [self EXCEPT
              !.delay_timer = IF @ > ticks THEN @ - ticks ELSE 0,
              !.sound_timer = IF @ > ticks THEN @ - ticks ELSE 0,
              !.draw_flag = TRUE,
              !.frame_time = 0]
  ELSE self

\* An end of the frame that leaves the timers alone.
EndFrameKeepingTimers(self) ==
  IF self.frame_time > MAX_FRAME_TIME
  THEN [self EXCEPT !.draw_flag = TRUE, !.frame_time = 0]
  ELSE self

\* The end of the frame: both timers count down, the frame is to be drawn.
\* A frame end that carries the time above the budget over to the next frame.
EndFrameCarryingOver(self) ==
  IF self.frame_time > MAX_FRAME_TIME
  THEN [self EXCEPT
          !.delay_timer = IF @ > 0 THEN @ - 1 ELSE @,
          !.sound_timer = IF @ > 0 THEN @ - 1 ELSE @,
          !.draw_flag = TRUE,
          !.frame_time = @ - MAX_FRAME_TIME]
  ELSE self

EndFrame(self) ==
  IF self.frame_time > MAX_FRAME_TIME
  THEN [self EXCEPT
          !.delay_timer = IF @ > 0 THEN @ - 1 ELSE @,
          !.sound_timer = IF @ > 0 THEN @ - 1 ELSE @,
          !.draw_flag = TRUE,
          !.frame_time = 0]
  ELSE self

\* simulate_operation_cycle: elapsed is what mol_start_time.elapsed()
\* returns, timers what the keys' timers return, random the byte Cxnn draws.
\* The result is [vm, opcode, deferred, cost, fatal]; after a panic vm is the
\* machine as the panic left it.
simulate_operation_cycle(self, elapsed, timers, random) ==
  IF ~FetchInBounds(self)
  THEN [vm |-> self, opcode |-> 0, deferred |-> FALSE, cost |-> 0,
        fatal |-> TRUE]
  ELSE LET opcode == fetch_opcode(self)
           done == decode_opcode_and_execute_operation(self, opcode, random)
           timed == [done.vm EXCEPT
                       !.frame_time = @ + done.cost + elapsed,
                       !.keypad_shadow = ExpireShadows(@, timers)]
       IN  IF done.fatal
           THEN [vm |-> done.vm, opcode |-> opcode, deferred |-> FALSE,
                 cost |-> 0, fatal |-> TRUE]
           ELSE [vm |-> EndFrame(timed), opcode |-> opcode,
                 deferred |-> done.deferred, cost |-> done.cost,
                 fatal |-> FALSE]

(***************************************************************************)
(* Construction, reset, key events                                         *)
(***************************************************************************)
\* The memory VirtualMachine::initialize builds: the font at the configured
\* location, then the program from 0x200 on (written last).
InitialMemory(settings, program_data) ==
  LET font_offset == settings.font_memory_starting_location
      font == font_offset .. font_offset + Len(FONT_DATA) - 1
      program == PROGRAM_START .. PROGRAM_START + Len(program_data) - 1
  IN  ArrayOf(font \cup program,
              [a \in font \cup program |->
                 IF a \in program
                 THEN program_data[a - PROGRAM_START + 1]
                 ELSE FONT_DATA[a - font_offset + 1]])

\* initialize succeeds when both loading loops stay inside the memory
Loadable(settings, program_data) ==
  /\ settings.font_memory_starting_location + Len(FONT_DATA) <= MEM_LEN
  /\ PROGRAM_START + Len(program_data) <= MEM_LEN

initialize(settings, program_data) ==
  [mem            |-> InitialMemory(settings, program_data),
   v              |-> [r \in 0 .. 15 |-> 0],
   i              |-> 0,
   pc             |-> PROGRAM_START,
   stack          |-> << >>,
   delay_timer    |-> 0,
   sound_timer    |-> 0,
   keypad         |-> [k \in 0 .. 15 |-> FALSE],
   keypad_shadow  |-> [k \in 0 .. 15 |-> FALSE],
   fb             |-> AllOff,
   draw_flag      |-> FALSE,
   font_locations |-> [c \in 0 .. 15 |->
                         settings.font_memory_starting_location + 5 * c],
   frame_time     |-> 0,
   settings       |-> settings]

\* A reset that keeps the return addresses of the stack.
reset_keeping_stack(self) ==
  [self EXCEPT
     !.fb = AllOff,
     !.v = [r \in 0 .. 15 |-> 0],
     !.i = 0,
     !.keypad = [k \in 0 .. 15 |-> FALSE],
     !.keypad_shadow = [k \in 0 .. 15 |-> FALSE],
     !.delay_timer = 0,
     !.sound_timer = 0,
     !.pc = PROGRAM_START]

reset(self) ==
  [self EXCEPT
     !.fb = AllOff,
     !.stack = << >>,
     !.v = [r \in 0 .. 15 |-> 0],
     !.i = 0,
     !.keypad = [k \in 0 .. 15 |-> FALSE],
     !.keypad_shadow = [k \in 0 .. 15 |-> FALSE],
     !.delay_timer = 0,
     !.sound_timer = 0,
     !.pc = PROGRAM_START]

\* A set_keypad_value that takes every event above 0xF for a key shifted
\* left by four bits, the 0x100 of key 0 among them.
set_keypad_value_shifting(self, input_event, timers) ==
  IF input_event \in 0 .. 15
  THEN [vm |-> [self EXCEPT !.keypad[input_event] = TRUE], timers |-> timers]
  ELSE LET key_up == input_event \div 16
       IN  IF key_up \in VALID_KEYS
           THEN [vm |-> [self EXCEPT !.keypad[key_up] = FALSE,
                                     !.keypad_shadow[key_up] = TRUE],
                 timers |-> [timers EXCEPT ![key_up] = 0]]
           ELSE [vm |-> self, timers |-> timers]

\* The events poll_for_input makes of a key: the key itself when it goes
\* down; the key shifted left by four bits, or 0x100 for key 0, when it
\* goes up.
KeyDownEvent(key) == key

KeyUpEvent(key) == IF key = 0 THEN 256 ELSE key * 16

\* set_keypad_value: [vm, timers], timers being the time since the moment
\* each key's timer holds
set_keypad_value(self, input_event, timers) ==
  IF input_event \in 0 .. 15
  THEN LET key_down == input_event
       IN  IF key_down \in VALID_KEYS
           THEN [vm |-> [self EXCEPT !.keypad[key_down] = TRUE],
                 timers |-> timers]
           ELSE [vm |-> self, timers |-> timers]
  ELSE LET key_up == IF input_event = 256 THEN 0 ELSE input_event \div 16
       IN  IF key_up \in VALID_KEYS
           THEN [vm |-> [self EXCEPT !.keypad[key_up] = FALSE,
                                     !.keypad_shadow[key_up] = TRUE],
                 timers |-> [timers EXCEPT ![key_up] = 0]]
           ELSE [vm |-> self, timers |-> timers]

(***************************************************************************)
(* State                                                                   *)
(***************************************************************************)
VARIABLES
  mem, v, i, stack, pc, delay_timer, sound_timer, keypad, keypad_shadow,
  fb, draw_flag, font_locations, frame_time, settings,  \* VirtualMachine
  keypad_shadow_timers,  \* main's array: the time since each key's Instant
  program_data,          \* the bytes of the program file
  state,                 \* "Running", or "Halted" after a panic
  last,                  \* history: what the last step was and did
  cycles                 \* history: the cycles run, where a run is bounded

vm_vars ==
  << mem, v, i, stack, pc, delay_timer, sound_timer, keypad, keypad_shadow,
     fb, draw_flag, font_locations, frame_time, settings >>

vars == << vm_vars, keypad_shadow_timers, program_data, state, last, cycles >>

\* the VirtualMachine the variables hold
vm ==
  [mem            |-> mem,
   v              |-> v,
   i              |-> i,
   pc             |-> pc,
   stack          |-> stack,
   delay_timer    |-> delay_timer,
   sound_timer    |-> sound_timer,
   keypad         |-> keypad,
   keypad_shadow  |-> keypad_shadow,
   fb             |-> fb,
   draw_flag      |-> draw_flag,
   font_locations |-> font_locations,
   frame_time     |-> frame_time,
   settings       |-> settings]

\* the variables hold the VirtualMachine s
Holds(s) ==
  /\ mem = s.mem
  /\ v = s.v
  /\ i = s.i
  /\ pc = s.pc
  /\ stack = s.stack
  /\ delay_timer = s.delay_timer
  /\ sound_timer = s.sound_timer
  /\ keypad = s.keypad
  /\ keypad_shadow = s.keypad_shadow
  /\ fb = s.fb
  /\ draw_flag = s.draw_flag
  /\ font_locations = s.font_locations
  /\ frame_time = s.frame_time
  /\ settings = s.settings

\* the step leaves the VirtualMachine s
Becomes(s) ==
  /\ mem' = s.mem
  /\ v' = s.v
  /\ i' = s.i
  /\ pc' = s.pc
  /\ stack' = s.stack
  /\ delay_timer' = s.delay_timer
  /\ sound_timer' = s.sound_timer
  /\ keypad' = s.keypad
  /\ keypad_shadow' = s.keypad_shadow
  /\ fb' = s.fb
  /\ draw_flag' = s.draw_flag
  /\ font_locations' = s.font_locations
  /\ frame_time' = s.frame_time
  /\ settings' = s.settings

\* the history of a step that is no cycle: what the step was, and the
\* program counter, frame time, registers and frame buffer it started from
Did(kind) ==
  [kind |-> kind, opcode |-> 0, deferred |-> FALSE, fatal |-> FALSE,
   cost |-> 0, elapsed |-> 0, pc |-> pc, frame_time |-> frame_time,
   v |-> v, fb |-> fb, key |-> 0]

(***************************************************************************)
(* Inputs                                                                  *)
(***************************************************************************)
\* the keys whose events the runs draw: 0 .. MaxKey
MaxKey == 0

Keys == 0 .. MaxKey

\* mol_start_time.elapsed() in a cycle: a part of a frame, more than two
\* frames
ElapsedTimes == {10000000, 40000000}

\* the time render_chip_8_frame takes
RenderTimes == {20000000}

\* the bytes random::<u8>() returns
RandomBytes == 0 .. 255

\* settings.toml as create_settings_file writes it
DefaultSettings ==
  [shift_quirk |-> FALSE,
   or_and_xor_quirk |-> TRUE,
   mem_quirk |-> TRUE,
   sprite_wrapping_quirk |-> TRUE,
   jump_offset_quirk |-> FALSE,
   execution_speed_multiple |-> [num |-> 1, den |-> 1],
   font_memory_starting_location |-> 80]

\* execution_speed_multiple: 0.5, 1.0, 2.0
SpeedMultiples ==
  {[num |-> 1, den |-> 2], [num |-> 1, den |-> 1], [num |-> 2, den |-> 1]}

\* 00E0, then a jump to 0x200
ClearLoop == << 0, 224, 18, 0 >>

\* V1 = 2, both timers = V1, wait for a key into V1, start again
TimerKeyLoop == << 97, 2, 241, 21, 241, 24, 241, 10, 18, 0 >>

\* V0 = 0xFF, I = 0x200, store V0 at I (over the program's first byte),
\* then a jump to itself
SelfStore == << 96, 255, 162, 0, 240, 85, 18, 6 >>

\* V0 = 5, I = the glyph of V0, draw it at (V0, V1) again and again
DrawLoop == << 96, 5, 240, 41, 208, 21, 18, 4 >>

\* call 0x204, which returns; start again
CallLoop == << 34, 4, 18, 0, 0, 238 >>

Programs == {ClearLoop, TimerKeyLoop, SelfStore, DrawLoop, CallLoop}

(***************************************************************************)
(* The main operating loop                                                 *)
(***************************************************************************)
Init ==
  /\ \E s \in {[DefaultSettings EXCEPT !.execution_speed_multiple = m] :
                 m \in SpeedMultiples} :
       \E p \in Programs :
         /\ Loadable(s, p)
         /\ Holds(initialize(s, p))
         /\ program_data = p
  /\ keypad_shadow_timers = [k \in 0 .. 15 |-> 0]
  /\ state = "Running"
  /\ last = Did("init")
  /\ cycles = 0

\* The time d passes: the timers of the keys grow.  A timer is read only
\* while its key's shadow flag is set, and a key-up restarts it as it sets
\* the flag, so only those timers are followed, up to the release duration.
Aged(d) ==
  [k \in 0 .. 15 |->
     IF keypad_shadow[k]
     THEN Min(keypad_shadow_timers[k] + d, KEYUP_RELEASE_DURATION)
     ELSE keypad_shadow_timers[k]]

\* vm.simulate_operation_cycle(&mol_start_time, &mut keypad_shadow_timers)
\* in an iteration of the main loop that takes one of the given times
CycleTaking(times) ==
  /\ state = "Running"
  /\ ~draw_flag
  /\ \E elapsed \in times :
       \E random \in IF FetchInBounds(vm) /\ fetch_opcode(vm) \div 4096 = 12
                     THEN RandomBytes ELSE {0} :
         \E done \in {simulate_operation_cycle(vm, elapsed, Aged(elapsed),
                                                 random)} :
             /\ Becomes(done.vm)
             /\ keypad_shadow_timers' = Aged(elapsed)
             /\ state' = IF done.fatal THEN "Halted" ELSE "Running"
             /\ last' = [kind |-> "cycle", opcode |-> done.opcode,
                         deferred |-> done.deferred, fatal |-> done.fatal,
                         cost |-> done.cost, elapsed |-> elapsed,
                         pc |-> pc, frame_time |-> frame_time,
                         v |-> v, fb |-> fb, key |-> 0]
  /\ UNCHANGED program_data

CycleBody == CycleTaking(ElapsedTimes)

Cycle == CycleBody /\ UNCHANGED cycles

\* Some(key) => IH::set_keypad_value(&mut vm, *key, &mut keypad_shadow_timers)
\* for one of the given keys, whose index the history keeps
KeyDownOf(keys) ==
  /\ state = "Running"
  /\ ~draw_flag
  /\ \E key \in keys :
       LET done == set_keypad_value(vm, KeyDownEvent(key), keypad_shadow_timers)
       IN  /\ Becomes(done.vm)
           /\ keypad_shadow_timers' = done.timers
           /\ last' = [Did("keydown") EXCEPT !.key = key]
  /\ UNCHANGED << program_data, state >>

KeyUpOf(keys) ==
  /\ state = "Running"
  /\ ~draw_flag
  /\ \E key \in keys :
       LET done == set_keypad_value(vm, KeyUpEvent(key), keypad_shadow_timers)
       IN  /\ Becomes(done.vm)
           /\ keypad_shadow_timers' = done.timers
           /\ last' = [Did("keyup") EXCEPT !.key = key]
  /\ UNCHANGED << program_data, state >>

KeyDown == KeyDownOf(Keys) /\ UNCHANGED cycles

KeyUp == KeyUpOf(Keys) /\ UNCHANGED cycles

\* Some(RESET) => vm.reset()
Reset ==
  /\ state = "Running"
  /\ ~draw_flag
  /\ Becomes(reset(vm))
  /\ last' = Did("reset")
  /\ UNCHANGED << keypad_shadow_timers, program_data, state, cycles >>

\* if vm.draw_flag { vs.render_chip_8_frame(..); vm.draw_flag = false; }
Render ==
  /\ state = "Running"
  /\ draw_flag
  /\ draw_flag' = FALSE
  /\ \E d \in RenderTimes : keypad_shadow_timers' = Aged(d)
  /\ last' = Did("render")
  /\ UNCHANGED << mem, v, i, stack, pc, delay_timer, sound_timer, keypad,
                  keypad_shadow, fb, font_locations, frame_time, settings,
                  program_data, state, cycles >>

Next == Cycle \/ KeyDown \/ KeyUp \/ Reset \/ Render

Spec == Init /\ [][Next]_vars

\* A cycle can be taken whenever the program runs and no frame waits to be
\* rendered: simulate_operation_cycle has no other precondition.
CycleEnabled == state = "Running" /\ ~draw_flag

\* The main loop never stops calling simulate_operation_cycle, and renders
\* the frame in the iteration that raised the draw flag: weak fairness of
\* Render and of Cycle, the latter written with CycleEnabled for
\* ENABLED <<Cycle>>_vars.
FairSpec ==
  /\ Spec
  /\ WF_vars(Render)
  /\ (<>[]CycleEnabled) => []<><<Cycle>>_vars

(***************************************************************************)
(* One operation from a given state                                        *)
(*                                                                         *)
(* A handler is a function of the machine it is called on.  These          *)
(* specifications start in a state of a running program in which an opcode *)
(* is about to be fetched at 0x200 (the registers, I, the stack, the       *)
(* timers, the frame buffer, the keys and the frame time being what the    *)
(* program and the user made them before control came back to 0x200), and  *)
(* run MaxCycles cycles from it.                                           *)
(***************************************************************************)
MaxCycles == 1

OpCycle ==
  /\ cycles < MaxCycles
  /\ CycleBody
  /\ cycles' = cycles + 1

\* The base cost in microseconds each handler gives its opcode (the number
\* in its op_duration), 0 for an opcode without a handler.
BaseCost(opcode) ==
  LET high == opcode \div 4096
      n    == opcode % 16
      nn   == opcode % 256
  IN  CASE high = 0 -> (CASE nn = 0 -> 100 [] nn = 224 -> 109
                          [] nn = 238 -> 105 [] OTHER -> 0)
        [] high \in {1, 2, 11} -> 105
        [] high \in {3, 4, 5, 9} -> 61
        [] high = 6 -> 27
        [] high = 7 -> 45
        [] high = 8 -> IF n \in {1, 2, 3, 5, 6, 7, 14} THEN 200 ELSE 45
        [] high = 10 -> 55
        [] high = 12 -> 164
        [] high = 13 -> 10734
        [] high = 14 -> IF nn \in {158, 161} THEN 73 ELSE 0
        [] OTHER -> (CASE nn = 7 -> 27 [] nn = 10 -> 200 [] nn \in {21, 24} -> 45
                       [] nn = 30 -> 86 [] nn = 41 -> 91 [] nn = 51 -> 927
                       [] nn \in {85, 101} -> 605 [] OTHER -> 0)

\* the cost of the opcode in nanoseconds under the settings
Cost(s, opcode) ==
  ((BaseCost(opcode) * s.execution_speed_multiple.num)
      \div s.execution_speed_multiple.den) * 1000

\* Frame times around the point where the opcode stops fitting the frame.
FrameTimesAround(s, opcode) ==
  {t \in {0, MAX_FRAME_TIME - Cost(s, opcode),
          MAX_FRAME_TIME - Cost(s, opcode) + 1, MAX_FRAME_TIME} : t >= 0}

\* The machine of a case c = [settings, opcode, frame_time, v, i, stack,
\* delay_timer, sound_timer, keypad, keypad_shadow, fb]: the one initialize
\* builds of the two bytes of the opcode, with the fields of the case.
MachineOf(c) ==
  [initialize(c.settings, << c.opcode \div 256, c.opcode % 256 >>) EXCEPT
     !.frame_time = c.frame_time,
     !.v = c.v,
     !.i = c.i,
     !.stack = c.stack,
     !.delay_timer = c.delay_timer,
     !.sound_timer = c.sound_timer,
     !.keypad = c.keypad,
     !.keypad_shadow = c.keypad_shadow,
     !.fb = c.fb]

\* the runs that start in the machine of one of the cases
Start(cases) ==
  /\ \E c \in cases :
       /\ Holds(MachineOf(c))
       /\ program_data = << c.opcode \div 256, c.opcode % 256 >>
  /\ keypad_shadow_timers = [k \in 0 .. 15 |-> 0]
  /\ state = "Running"
  /\ last = Did("init")
  /\ cycles = 0

\* A machine in the middle of a program: registers V0 = 0x11 .. VE = 0xFF,
\* VF = 0x10, all different, a return address on the stack, running timers, a lit
\* pixel in each corner and on the glyph the sample draws cover, key 1 down,
\* key 2 released.
BusyCase(s, opcode, time, index) ==
  [settings |-> s, opcode |-> opcode, frame_time |-> time,
   v |-> [r \in 0 .. 15 |-> (17 * (r + 1)) % 256],
   i |-> index,
   stack |-> << \h0300 >>,
   delay_timer |-> 7,
   sound_timer |-> 1,
   keypad |-> [k \in 0 .. 15 |-> k = 1],
   keypad_shadow |-> [k \in 0 .. 15 |-> k = 2],
   fb |-> {0, 63, 1120, 1984, 2047}]

\* One opcode or more of every handler, and opcodes without a handler.
Opcodes ==
  { \h0000, \h0300, \h00E0, \h00EE, \h1234, \h2345, \h3122, \h3100, \h4122,
    \h4100, \h5120, \h5110, \h6AFF, \h7AFF, \h8120, \h8121, \h8122, \h8123,
    \h8124, \h8F24, \h8125, \h8126, \h8127, \h812E, \h8128, \h9120, \h9110,
    \hA123, \hB123, \hC1F0, \hD125, \hD12F, \hE19E, \hE1A1, \hE09E, \hE0A1,
    \hF107, \hF10A, \hF115, \hF118, \hF11E, \hF129, \hF133, \hF155, \hFF55,
    \hF165, \hFF65,
    \h0001, \h00E1, \hE100, \hF100, \hFFFF }

\* the index register: in the font, at the last bytes of the memory, past it
Indexes == {\h0050, \h0FFE, \hFFFF}

\* the cases of the opcodes under the default settings at each of the speed
\* multiples
OpCases(multiples) ==
  UNION {{BusyCase(s, opcode, time, index) :
            time \in FrameTimesAround(s, opcode), index \in Indexes} :
         s \in {[DefaultSettings EXCEPT !.execution_speed_multiple = m] :
                  m \in multiples},
         opcode \in Opcodes}

SpecOps == Start(OpCases(SpeedMultiples)) /\ [][OpCycle]_vars

\* Fx0A on every state of the keys 0 .. MaxPadKey and F: each of them up or
\* down, its shadow set or not.
MaxPadKey == 2

PadKeys == (0 .. MaxPadKey) \cup {15}

Pads == {[k \in 0 .. 15 |-> k \in down] : down \in SUBSET PadKeys}

KeyCases(s) ==
  {[BusyCase(s, opcode, time, 0) EXCEPT
      !.keypad = down, !.keypad_shadow = shadow] :
     opcode \in {\hF00A, \hF10A, \hFF0A},
     time \in {0, MAX_FRAME_TIME - 200000, MAX_FRAME_TIME - 199999},
     down \in Pads, shadow \in Pads}

SpecKeys == Start(KeyCases(DefaultSettings)) /\ [][OpCycle]_vars

\* 8xy4 on every value a of Vx, with the values b of Vy at both ends of the
\* byte and on both sides of the carry (a + b = 255, a + b = 256), for the
\* registers 0, 1 and F as x and as y.  The other registers hold 0xAA.
Bytes == 0 .. 255

Registers == {0, 1, 15}

Addends(a) == {0, 1, 255 - a, (256 - a) % 256, 255}

ArithCases(s) ==
  UNION {{[BusyCase(s, \h8004 + 256 * x + 16 * y, 0, 0) EXCEPT
             !.v = [r \in 0 .. 15 |->
                      IF r = x THEN a ELSE IF r = y THEN b ELSE 170]] :
            b \in IF x = y THEN {a} ELSE Addends(a)} :
         x \in Registers, y \in Registers, a \in Bytes}

SpecArith == Start(ArithCases(DefaultSettings)) /\ [][OpCycle]_vars

\* the machine in which the opcode base + x, y is about to run with a in Vx,
\* b in Vy and 0xAA in every other register
RegisterCase(s, base, x, y, a, b) ==
  [BusyCase(s, base + 256 * x + 16 * y, 0, 0) EXCEPT
     !.v = [r \in 0 .. 15 |->
              IF r = x THEN a ELSE IF r = y THEN b ELSE 170]]

\* 8xy5 and 8xy7 on every value a of Vx, with the values b of Vy at both
\* ends of the byte and on both sides of the borrow (b = a - 1, a, a + 1),
\* for the registers 0, 1 and F as x and as y, under the settings s.
Subtrahends(a) == {0, (a + 255) % 256, a, (a + 1) % 256, 255}

SubCases(s) ==
  UNION {{RegisterCase(s, base, x, y, a, b) :
            b \in IF x = y THEN {a} ELSE Subtrahends(a)} :
         base \in {\h8005, \h8007},
         x \in Registers, y \in Registers, a \in Bytes}

SpecSub == Start(SubCases(DefaultSettings)) /\ [][OpCycle]_vars

\* 8xy6 and 8xyE, with the shift quirk as given, on every value a of Vx with
\* its complement in Vy (so that no bit of Vy is the bit of Vx), for the
\* registers 0, 1 and F as x and as y.
ShiftCases(quirks) ==
  UNION {{RegisterCase([DefaultSettings EXCEPT !.shift_quirk = quirk],
                       base, x, y, a, b) :
            b \in IF x = y THEN {a} ELSE {255 - a}} :
         quirk \in quirks, base \in {\h8006, \h800E},
         x \in Registers, y \in Registers, a \in Bytes}

SpecShift == Start(ShiftCases(BOOLEAN)) /\ [][OpCycle]_vars

\* 8xy1, with the logic quirk as given, on every value a of Vx with its
\* complement and with 0x55 in Vy, for the registers 0, 1 and F as x and
\* as y.
LogicCases(quirks) ==
  UNION {{RegisterCase([DefaultSettings EXCEPT !.or_and_xor_quirk = quirk],
                       \h8001, x, y, a, b) :
            b \in IF x = y THEN {a} ELSE {255 - a, 85}} :
         quirk \in quirks,
         x \in Registers, y \in Registers, a \in Bytes}

SpecLogic == Start(LogicCases(BOOLEAN)) /\ [][OpCycle]_vars

\* The machine of a case whose program is its opcode twice in a row.
TwiceMachineOf(c) ==
  LET twice == << c.opcode \div 256, c.opcode % 256,
                  c.opcode \div 256, c.opcode % 256 >>
  IN  [MachineOf(c) EXCEPT !.mem = initialize(c.settings, twice).mem]

StartTwice(cases) ==
  /\ \E c \in cases :
       /\ Holds(TwiceMachineOf(c))
       /\ program_data = << c.opcode \div 256, c.opcode % 256,
                            c.opcode \div 256, c.opcode % 256 >>
  /\ keypad_shadow_timers = [k \in 0 .. 15 |-> 0]
  /\ state = "Running"
  /\ last = Did("init")
  /\ cycles = 0

\* iterations of the main loop short enough for two draws to fit a frame
ShortTimes == {1000000}

\* one cycle more than OpCycle runs: the opcode and its repetition
TwiceCycle ==
  /\ cycles < MaxCycles + 1
  /\ CycleTaking(ShortTimes)
  /\ cycles' = cycles + 1

\* the cells of the two corner regions of the screen the samples draw in
CornerCells ==
  {row * 64 + col : row \in (0 .. 5) \cup (26 .. 31),
                    col \in (0 .. 11) \cup (56 .. 63)}

\* frame buffers: all off, the corner regions as a checkerboard, the corner
\* regions all on
FrameBuffers ==
  {{}, {cell \in CornerCells : ((cell \div 64) + (cell % 64)) % 2 = 0},
   CornerCells}

\* the registers of Dxyn: different ones, and F as x, as y
DrawRegisters == {<< 0, 1 >>, << 15, 1 >>, << 0, 15 >>, << 1, 1 >>}

\* start coordinates on the screen, on its last column and row, and past them
DrawColumns == {1, 60, 63, 64, 124}

DrawRows == {1, 30, 31, 32, 62}

\* sprite heights: none, two rows, the most
DrawHeights == {0, 2, 15}

\* the sprite: the program itself, font glyphs, the last two bytes of memory
SpriteIndexes == {PROGRAM_START, \h0050, \h0FFE}

\* Dxyn twice in one frame (at half the cost two draws fit a frame), with
\* the sprite wrapping quirk as given.
DrawCases(quirks) ==
  UNION {{[RegisterCase([DefaultSettings EXCEPT
                           !.execution_speed_multiple = [num |-> 1, den |-> 2],
                           !.sprite_wrapping_quirk = quirk],
                        \hD000 + n, xy[1], xy[2], a, b) EXCEPT
             !.i = index, !.fb = buffer] :
            b \in IF xy[1] = xy[2] THEN {a} ELSE DrawRows,
            n \in DrawHeights, index \in SpriteIndexes,
            buffer \in FrameBuffers} :
         quirk \in quirks, xy \in DrawRegisters, a \in DrawColumns}

SpecDraw == StartTwice(DrawCases(BOOLEAN)) /\ [][TwiceCycle]_vars

\* 00E0 over each of the frame buffers and the one of BusyCase, at each of
\* the speed multiples, around the point where it stops fitting the frame.
ClearCases(multiples) ==
  UNION {{[BusyCase(s, \h00E0, time, index) EXCEPT !.fb = buffer] :
            time \in FrameTimesAround(s, \h00E0), index \in Indexes,
            buffer \in FrameBuffers \cup {BusyCase(s, \h00E0, 0, 0).fb}} :
         s \in {[DefaultSettings EXCEPT !.execution_speed_multiple = m] :
                  m \in multiples}}

SpecClear == Start(ClearCases(SpeedMultiples)) /\ [][OpCycle]_vars

\* the runs that start in the machine initialize builds of one of the
\* programs, under the default settings at one of the speed multiples
Boot(multiples, programs) ==
  /\ \E m \in multiples :
       \E p \in programs :
         LET s == [DefaultSettings EXCEPT !.execution_speed_multiple = m]
         IN  /\ Loadable(s, p)
             /\ Holds(initialize(s, p))
             /\ program_data = p
  /\ keypad_shadow_timers = [k \in 0 .. 15 |-> 0]
  /\ state = "Running"
  /\ last = Did("init")
  /\ cycles = 0

\* a call of the address the call is at
CallSelf == << \h22, \h00 >>

\* 0x200: call 0x204; 0x202: return; 0x204: call 0x208; 0x206: return;
\* 0x208: return.  Two nested calls return one after the other to 0x202,
\* where a third return finds the stack empty.
NestedCalls ==
  << \h22, \h04, \h00, \hEE, \h22, \h08, \h00, \hEE, \h00, \hEE >>

\* a return as the first instruction
LoneReturn == << \h00, \hEE >>

CallPrograms == {CallSelf, NestedCalls, LoneReturn}

\* the cycles a run of the call programs takes: enough for 17 calls
MaxCalls == 17

CallCycle ==
  /\ cycles < MaxCalls
  /\ CycleTaking(ShortTimes \cup ElapsedTimes)
  /\ cycles' = cycles + 1

CallRender == Render

SpecCalls ==
  Boot(SpeedMultiples, CallPrograms) /\ [][CallCycle \/ CallRender]_vars

\* The machine of a case with PC at the given address: the bytes of the
\* opcode are at PC and PC + 1 where these are in the memory.
MachineAt(c, at) ==
  LET placed(bytes, a, b) == IF a < MEM_LEN THEN Store(bytes, a, b) ELSE bytes
  IN  [MachineOf(c) EXCEPT
         !.pc = at,
         !.mem = placed(placed(@, at, c.opcode \div 256),
                        at + 1, c.opcode % 256)]

\* the runs that start in the machine of one of the cases [case, pc]
StartAt(cases) ==
  /\ \E c \in cases :
       /\ Holds(MachineAt(c.case, c.pc))
       /\ program_data = << c.case.opcode \div 256, c.case.opcode % 256 >>
  /\ keypad_shadow_timers = [k \in 0 .. 15 |-> 0]
  /\ state = "Running"
  /\ last = Did("init")
  /\ cycles = 0

\* the program counter: at the start of the program, at the last opcodes of
\* the memory, and where a skip at 0xFFC or 0xFFE and a Bnnn can take it
ProgramCounters ==
  {PROGRAM_START, \h0FFC, \h0FFE, \h0FFF, \h1000, \h1002, \h10FE}

\* opcodes whose effect shows each operand: x and nn (6xnn), nnn (Annn),
\* x and y (8xy0), n (Dxyn)
OperandOpcodes == {\h6A5C, \hA123, \h8AB0, \hD125}

FetchCases(s) ==
  UNION {{[case |-> BusyCase(s, opcode, time, \h0050), pc |-> at] :
            time \in FrameTimesAround(s, opcode), at \in ProgramCounters} :
         opcode \in OperandOpcodes}

SpecFetch == StartAt(FetchCases(DefaultSettings)) /\ [][OpCycle]_vars

\* the index register of a transfer: in the font, one byte before the
\* program, where the transfer of 16 registers ends at the last byte of the
\* memory and one byte after it, at the last two bytes of the memory
TransferIndexes == {\h0050, \h01FF, \h0FF0, \h0FF1, \h0FFE}

\* Fx55 and Fx65 with x = 0, 2 and F, with the memory quirk as given
MemCases(quirks) ==
  {BusyCase([DefaultSettings EXCEPT !.mem_quirk = quirk], opcode, 0, index) :
     quirk \in quirks,
     opcode \in {\hF055, \hF255, \hFF55, \hF065, \hF265, \hFF65},
     index \in TransferIndexes}

SpecMem == Start(MemCases(BOOLEAN)) /\ [][OpCycle]_vars

\* targets of Bnnn: low in the memory, and with the high nibbles 2, E and F
JumpTargets == {\h00FE, \h02FE, \h0EFF, \h0FFF}

\* Bnnn with V0 = a and, when it is another register, V[high nibble of
\* nnn] = b, with the jump offset quirk as given
JumpCases(quirks) ==
  UNION {{[BusyCase([DefaultSettings EXCEPT !.jump_offset_quirk = quirk],
                    \hB000 + nnn, 0, 0) EXCEPT
             !.v = [r \in 0 .. 15 |->
                      IF r = 0 THEN a
                      ELSE IF r = nnn \div 256 THEN b ELSE 170]] :
            a \in {0, 2, 127, 255}, b \in {1, 128, 255}} :
         quirk \in quirks, nnn \in JumpTargets}

SpecJump == Start(JumpCases(BOOLEAN)) /\ [][TwiceCycle]_vars

\* every state of the keys 0 .. MaxPadKey and F, before an event
PadCases(s) ==
  {[BusyCase(s, \hF00A, 0, 0) EXCEPT
      !.keypad = down, !.keypad_shadow = shadow] :
     down \in Pads, shadow \in Pads}

\* the time since the release of a key whose shadow flag is set, before the
\* event
SinceRelease == 10000000

\* The runs that start in the machine of one of the cases, the keys whose
\* shadow flag is set having been released SinceRelease before.
StartPad(cases) ==
  /\ \E c \in cases :
       /\ Holds(MachineOf(c))
       /\ program_data = << c.opcode \div 256, c.opcode % 256 >>
       /\ keypad_shadow_timers =
            [k \in 0 .. 15 |-> IF c.keypad_shadow[k] THEN SinceRelease ELSE 0]
  /\ state = "Running"
  /\ last = Did("init")
  /\ cycles = 0

\* an event of any key of the keypad
PadDown ==
  /\ cycles < MaxCycles
  /\ KeyDownOf(0 .. 15)
  /\ cycles' = cycles + 1

PadUp ==
  /\ cycles < MaxCycles
  /\ KeyUpOf(0 .. 15)
  /\ cycles' = cycles + 1

SpecPad == StartPad(PadCases(DefaultSettings)) /\ [][PadDown \/ PadUp]_vars

\* Ex9E and ExA1 for x = 0 and x = F on every value a of Vx: the key
\* a AND 0xF down and every other key up, or up and every other key down;
\* the shadow flags the opposite of the current flags.
SkipCases(s) ==
  {[BusyCase(s, opcode, 0, 0) EXCEPT
      !.v = [r \in 0 .. 15 |-> IF r = (opcode \div 256) % 16 THEN a ELSE 170],
      !.keypad = [k \in 0 .. 15 |-> (k = a % 16) = down],
      !.keypad_shadow = [k \in 0 .. 15 |-> (k = a % 16) # down]] :
     opcode \in {\hE09E, \hE0A1, \hEF9E, \hEFA1},
     a \in Bytes, down \in BOOLEAN}

SpecSkip == Start(SkipCases(DefaultSettings)) /\ [][OpCycle]_vars

(***************************************************************************)
(* Properties                                                              *)
(***************************************************************************)
\* the step is a cycle that fetches an opcode (only a cycle leaves the kind
\* "cycle" in last, and a cycle always changes the frame time or the flag)
CycleStep == last'.kind = "cycle" /\ FetchInBounds(vm)

\* the step is a cycle whose frame time ends above the budget
FrameEnds == frame_time + last'.cost + last'.elapsed > MAX_FRAME_TIME

\* C1: a handler called when the frame time plus its cost is above
\* MAX_FRAME_TIME returns None and changes nothing: in such a cycle the
\* memory, V0-VF, I, the stack, the frame buffer, the keys and PC stay as
\* they are, the timers change only by the end of the frame, the frame time
\* grows by the elapsed time alone, and the next fetch yields the same
\* opcode.
C1_DeferredHandlerChangesNothing ==
  [][(/\ CycleStep
      /\ BaseCost(fetch_opcode(vm)) > 0
      /\ frame_time + Cost(settings, fetch_opcode(vm)) > MAX_FRAME_TIME)
     => /\ last'.deferred /\ last'.cost = 0 /\ ~last'.fatal
        /\ mem' = mem /\ v' = v /\ i' = i /\ stack' = stack /\ fb' = fb
        /\ keypad' = keypad /\ pc' = pc
        /\ keypad_shadow' = ExpireShadows(keypad_shadow, keypad_shadow_timers')
        /\ delay_timer' = IF frame_time + last'.elapsed > MAX_FRAME_TIME
                             /\ delay_timer > 0
                          THEN delay_timer - 1 ELSE delay_timer
        /\ sound_timer' = IF frame_time + last'.elapsed > MAX_FRAME_TIME
                             /\ sound_timer > 0
                          THEN sound_timer - 1 ELSE sound_timer
        /\ frame_time' = IF frame_time + last'.elapsed > MAX_FRAME_TIME
                         THEN 0 ELSE frame_time + last'.elapsed
        /\ fetch_opcode(vm') = fetch_opcode(vm)]_vars

\* a sprite draw was deferred with frame time left that its cost does not fit
C1_Witness ==
  /\ last.kind = "cycle" /\ last.deferred
  /\ last.opcode \div 4096 = 13
  /\ last.frame_time < MAX_FRAME_TIME
  /\ last.frame_time + Cost(settings, last.opcode) > MAX_FRAME_TIME
  /\ pc = last.pc

\* C2: no operation is starved: a cycle that defers its operation is
\* followed, later, by a cycle that executes an operation.
C2_DeferredEventuallyExecutes ==
  (last.kind = "cycle" /\ last.deferred)
    ~> (last.kind = "cycle" /\ ~last.deferred /\ ~last.fatal)

\* the values the operation of the cycle leaves in the timers before the
\* frame ends: Fx15 and Fx18 set them, no other operation touches them
SetsTimer(nn) ==
  /\ ~last'.deferred
  /\ last'.opcode \div 4096 = 15
  /\ last'.opcode % 256 = nn

DelayAfterOperation ==
  IF SetsTimer(21) THEN v[(last'.opcode \div 256) % 16] ELSE delay_timer

SoundAfterOperation ==
  IF SetsTimer(24) THEN v[(last'.opcode \div 256) % 16] ELSE sound_timer

\* C3: a cycle whose frame time (what it was, plus the cost of the operation,
\* plus the elapsed time) ends above MAX_FRAME_TIME takes exactly 1 from
\* each timer above 0, raises the draw flag and resets the frame time,
\* however many budgets the elapsed time spans; a cycle that ends at or
\* below the budget changes no timer and does not raise the flag.
C3_FrameEndTicksOnce ==
  [][(CycleStep /\ ~last'.fatal)
     => IF FrameEnds
        THEN /\ delay_timer' = IF DelayAfterOperation > 0
                               THEN DelayAfterOperation - 1 ELSE 0
             /\ sound_timer' = IF SoundAfterOperation > 0
                               THEN SoundAfterOperation - 1 ELSE 0
             /\ draw_flag'
             /\ frame_time' = 0
        ELSE /\ delay_timer' = DelayAfterOperation
             /\ sound_timer' = SoundAfterOperation
             /\ draw_flag' = draw_flag
             /\ frame_time' = frame_time + last'.cost + last'.elapsed]_vars

\* a cycle whose elapsed time spans more than two budgets took one tick from
\* a delay timer of 2
C3_Witness ==
  /\ last.kind = "cycle" /\ ~last.fatal
  /\ last.elapsed > 2 * MAX_FRAME_TIME
  /\ delay_timer = 1
  /\ draw_flag
  /\ frame_time = 0

\* the release condition of key k: its shadow set, the key up
ReleaseObserved(k) == keypad_shadow[k] /\ ~keypad[k]

IsFx0A(opcode) == opcode \div 4096 = 15 /\ opcode % 256 = 10

\* Fx0A is the next operation and no key satisfies the release condition
Waiting ==
  /\ state = "Running"
  /\ FetchInBounds(vm)
  /\ IsFx0A(fetch_opcode(vm))
  /\ \A k \in 0 .. 15 : ~ReleaseObserved(k)

\* C4: in a run where Fx0A waits for ever, the draw flag is raised again and
\* again and both timers reach 0; and a cycle of the wait leaves PC at the
\* Fx0A.
C4_WaitKeepsFramesComing ==
  /\ ([]<>~Waiting) \/ (([]<>draw_flag)
                        /\ <>[](delay_timer = 0 /\ sound_timer = 0))
  /\ [][(Waiting /\ CycleStep) => pc' = pc]_vars

\* Fx0A waits with the frame drawn and both timers run down from 2 to 0
C4_Witness ==
  /\ Waiting
  /\ program_data = TimerKeyLoop
  /\ last.kind = "render"
  /\ delay_timer = 0 /\ sound_timer = 0

\* the register x of the opcode the cycle fetches
FetchedX == (fetch_opcode(vm) \div 256) % 16

\* C5: a cycle of Fx0A changes Vx or PC only if it observes the release
\* condition of a key k (the shadow of k set, k up), and then Vx becomes k
\* and PC moves by 2; while no key satisfies it (none was pressed, or the
\* key is still down) the cycle leaves every register and PC as they are.
C5_KeyTakenOnlyOnRelease ==
  [][(CycleStep /\ IsFx0A(fetch_opcode(vm)))
     => /\ (\A k \in 0 .. 15 : ~ReleaseObserved(k)) => (v' = v /\ pc' = pc)
        /\ (v' # v \/ pc' # pc)
             => \E k \in 0 .. 15 :
                  /\ ReleaseObserved(k)
                  /\ v' = [v EXCEPT ![FetchedX] = k]
                  /\ pc' = pc + 2]_vars

\* the wait of the timer-and-key program ended on the release of key 0: V1
\* went from 2 to 0 and PC moved past the Fx0A
C5_Witness ==
  /\ program_data = TimerKeyLoop
  /\ last.kind = "cycle" /\ IsFx0A(last.opcode) /\ ~last.deferred
  /\ pc = last.pc + 2
  /\ v[1] = 0
  /\ ~keypad[0]

\* C6: a cycle that executes Fx0A stores in Vx the lowest key whose shadow
\* is set and which is up, and moves PC by 2; with no such key it changes no
\* register, not I, no memory and not PC.
C6_LowestReleasedKey ==
  [][(CycleStep /\ IsFx0A(fetch_opcode(vm)) /\ ~last'.deferred)
     => /\ mem' = mem /\ i' = i
        /\ IF \E k \in 0 .. 15 : ReleaseObserved(k)
           THEN \E k \in 0 .. 15 :
                  /\ ReleaseObserved(k)
                  /\ \A j \in 0 .. k - 1 : ~ReleaseObserved(j)
                  /\ v' = [v EXCEPT ![FetchedX] = k]
                  /\ pc' = pc + 2
           ELSE v' = v /\ pc' = pc]_vars

\* Fx0A took key 1 with the keys 2 and F released as well and key 0 down
C6_Witness ==
  /\ last.kind = "cycle" /\ IsFx0A(last.opcode) /\ ~last.deferred
  /\ keypad[0] /\ ~keypad[1] /\ ~keypad[2] /\ ~keypad[15]
  /\ v[(last.opcode \div 256) % 16] = 1
  /\ pc = last.pc + 2

\* C7: reset leaves the memory and the settings as they are, zeroes V0-VF,
\* I and both timers, clears the frame buffer and both key arrays, empties
\* the stack and sets PC to 0x200.
C7_ResetClearsAllButMemory ==
  [][last'.kind = "reset"
     => /\ mem' = mem
        /\ settings' = settings
        /\ v' = [r \in 0 .. 15 |-> 0]
        /\ i' = 0
        /\ delay_timer' = 0 /\ sound_timer' = 0
        /\ fb' = AllOff
        /\ keypad' = [k \in 0 .. 15 |-> FALSE]
        /\ keypad_shadow' = [k \in 0 .. 15 |-> FALSE]
        /\ stack' = << >>
        /\ pc' = PROGRAM_START]_vars

\* a reset in the subroutine of the call program, where the stack held the
\* return address
C7_Witness ==
  /\ program_data = CallLoop
  /\ last.kind = "reset"
  /\ last.pc = PROGRAM_START + 4
  /\ stack = << >>
  /\ pc = PROGRAM_START

\* C8: after a reset the memory from 0x200 on holds the bytes of the program
\* as it was loaded, and the font region holds the glyphs.
C8_ResetRestoresImage ==
  last.kind = "reset"
    => \A a \in 0 .. MEM_LEN - 1 :
         (\/ a \in PROGRAM_START .. PROGRAM_START + Len(program_data) - 1
          \/ a \in settings.font_memory_starting_location ..
                     settings.font_memory_starting_location + Len(FONT_DATA) - 1)
           => Load(mem, a) = Load(InitialMemory(settings, program_data), a)

\* C9: the program 00E0, 1200 never halts; its frame buffer is all off after
\* every cycle, its stack stays empty, PC is at one of its two instructions,
\* and PC comes back to 0x200 again and again, by the jump (or by a reset,
\* if the user resets the machine before the jump each time).
C9_ClearLoopRunsForEver ==
  /\ [](program_data = ClearLoop
          => /\ state = "Running"
             /\ fb = AllOff
             /\ stack = << >>
             /\ pc \in {PROGRAM_START, PROGRAM_START + 2})
  /\ []<>(\/ program_data # ClearLoop
          \/ /\ last.kind = "cycle" /\ last.opcode = \h1200 /\ ~last.deferred
             /\ pc = PROGRAM_START
          \/ last.kind = "reset" /\ pc = PROGRAM_START)

\* the jump of the program brought PC back to 0x200
C9_Witness ==
  /\ program_data = ClearLoop
  /\ last.kind = "cycle" /\ last.opcode = \h1200 /\ ~last.deferred
  /\ last.pc = PROGRAM_START + 2
  /\ pc = PROGRAM_START
  /\ fb = AllOff

Is8xy4(opcode) == opcode \div 4096 = 8 /\ opcode % 16 = 4

FetchedY == (fetch_opcode(vm) \div 16) % 16

Carry == IF v[FetchedX] + v[FetchedY] > 255 THEN 1 ELSE 0

\* C10 as stated: 8xy4 leaves Vx = (Vx + Vy) mod 256 and VF = 1 if the sum
\* is above 255, else 0, for every x and y.
C10_AddWrapsAndCarries ==
  [][(CycleStep /\ Is8xy4(fetch_opcode(vm)) /\ ~last'.deferred)
     => /\ v'[FetchedX] = (v[FetchedX] + v[FetchedY]) % 256
        /\ v'[15] = Carry]_vars

\* C10, x = F apart: 8xy4 leaves VF = 1 if Vx + Vy is above 255, else 0,
\* and, when x is not F, Vx = (Vx + Vy) mod 256; every other register keeps
\* its value.  With x = F the carry overwrites the sum.
C10_AddWrapsAndCarriesBelowF ==
  [][(CycleStep /\ Is8xy4(fetch_opcode(vm)) /\ ~last'.deferred)
     => /\ v'[15] = Carry
        /\ FetchedX # 15
             => v'[FetchedX] = (v[FetchedX] + v[FetchedY]) % 256
        /\ \A r \in 0 .. 14 : r # FetchedX => v'[r] = v[r]]_vars

\* 8104 added 200 and 56: V1 wrapped to 0 with the carry in VF
C10_Witness ==
  /\ last.kind = "cycle" /\ last.opcode = \h8104 /\ ~last.deferred
  /\ v[0] = 56
  /\ v[1] = 0
  /\ v[15] = 1

Is8xy(opcode, n) == opcode \div 4096 = 8 /\ opcode % 16 = n

\* the operands of the subtraction the cycle fetches: Vx - Vy for 8xy5,
\* Vy - Vx for 8xy7
Minuend == IF Is8xy(fetch_opcode(vm), 5) THEN v[FetchedX] ELSE v[FetchedY]

Subtrahend == IF Is8xy(fetch_opcode(vm), 5) THEN v[FetchedY] ELSE v[FetchedX]

SubtractionStep ==
  /\ CycleStep
  /\ Is8xy(fetch_opcode(vm), 5) \/ Is8xy(fetch_opcode(vm), 7)
  /\ ~last'.deferred

\* C11 as stated: 8xy5 (a = Vx, b = Vy) and 8xy7 (a = Vy, b = Vx) leave
\* Vx = (a - b) mod 256 and VF = 1 if a >= b, else 0, for every x and y.
C11_SubWrapsAndFlagsNoBorrow ==
  [][SubtractionStep
     => /\ v'[FetchedX] = (Minuend - Subtrahend + 256) % 256
        /\ v'[15] = IF Minuend >= Subtrahend THEN 1 ELSE 0]_vars

\* C11, x = F apart: 8xy5 and 8xy7 leave VF = 1 if a >= b, else 0, and,
\* when x is not F, Vx = (a - b) mod 256; every other register keeps its
\* value.  With x = F the flag overwrites the difference.
C11_SubWrapsAndFlagsNoBorrowBelowF ==
  [][SubtractionStep
     => /\ v'[15] = IF Minuend >= Subtrahend THEN 1 ELSE 0
        /\ FetchedX # 15
             => v'[FetchedX] = (Minuend - Subtrahend + 256) % 256
        /\ \A r \in 0 .. 14 : r # FetchedX => v'[r] = v[r]]_vars

\* 8105 took 4 from 3: V1 wrapped to 255 and VF = 0 tells the borrow
C11_Witness ==
  /\ last.kind = "cycle" /\ last.opcode = \h8105 /\ ~last.deferred
  /\ v[0] = 4
  /\ v[1] = 255
  /\ v[15] = 0

ShiftStep ==
  /\ CycleStep
  /\ Is8xy(fetch_opcode(vm), 6) \/ Is8xy(fetch_opcode(vm), 14)
  /\ ~last'.deferred

\* the value the shift works on: Vy with the quirk off, Vx with it on
ShiftSource == IF settings.shift_quirk THEN v[FetchedX] ELSE v[FetchedY]

Shifted ==
  IF Is8xy(fetch_opcode(vm), 6)
  THEN ShiftSource \div 2 ELSE (ShiftSource * 2) % 256

ShiftedOut ==
  IF Is8xy(fetch_opcode(vm), 6)
  THEN ShiftSource % 2 ELSE ShiftSource \div 128

\* C12 as stated: with the shift quirk off 8xy6 and 8xyE leave Vx = Vy >> 1
\* resp. (Vy << 1) mod 256 and VF = bit 0 resp. bit 7 of the old Vy; with it
\* on they leave Vy as it was, Vx = the old Vx shifted and VF = the bit of
\* the old Vx shifted out; for every x and y.
C12_ShiftQuirk ==
  [][ShiftStep
     => /\ v'[FetchedX] = Shifted
        /\ v'[15] = ShiftedOut
        /\ settings.shift_quirk => v'[FetchedY] = v[FetchedY]]_vars

\* C12, F apart: the shifts leave VF = the bit shifted out of Vy (quirk off)
\* resp. of Vx (quirk on), Vx = that value shifted when x is not F, and
\* every register other than Vx and VF, Vy among them, as it was.  With
\* x = F the bit overwrites the shifted value, and with y = F Vy is VF and
\* takes the bit.
C12_ShiftQuirkBelowF ==
  [][ShiftStep
     => /\ v'[15] = ShiftedOut
        /\ FetchedX # 15 => v'[FetchedX] = Shifted
        /\ \A r \in 0 .. 14 : r # FetchedX => v'[r] = v[r]]_vars

\* with the quirk off 8106 shifted V0 = 0x55 into V1 = 0x2A, VF = 1, over
\* the 0xAA V1 held
C12_Witness ==
  /\ ~settings.shift_quirk
  /\ last.kind = "cycle" /\ last.opcode = \h8106 /\ ~last.deferred
  /\ v[0] = 85
  /\ v[1] = 42
  /\ v[15] = 1

OrStep == CycleStep /\ Is8xy(fetch_opcode(vm), 1) /\ ~last'.deferred

\* C13 as stated: an executed 8xy1 leaves VF = 0 with the logic quirk on and
\* VF as it was with the quirk off, for every x and y.
C13_LogicQuirk ==
  [][OrStep
     => v'[15] = IF settings.or_and_xor_quirk THEN 0 ELSE v[15]]_vars

\* C13, x = F apart: an executed 8xy1 leaves VF = 0 with the logic quirk
\* on; with it off it leaves VF as it was when x is not F, and VF = VF OR Vy
\* when x = F (VF is then the destination of the OR).
C13_LogicQuirkBelowF ==
  [][OrStep
     => v'[15] = IF settings.or_and_xor_quirk THEN 0
                 ELSE IF FetchedX # 15 THEN v[15]
                 ELSE BitOr(v[15], v[FetchedY])]_vars

\* with the quirk off 8011 left V0 = 0x0F OR 0xF0 and VF = 0xAA as it was
C13_Witness ==
  /\ ~settings.or_and_xor_quirk
  /\ last.kind = "cycle" /\ last.opcode = \h8011 /\ ~last.deferred
  /\ v[1] = 240
  /\ v[0] = 255
  /\ v[15] = 170

IsDxyn(opcode) == opcode \div 4096 = 13

\* the cycle fetches a Dxyn and its handler runs to its end
DrawStep ==
  /\ CycleStep
  /\ IsDxyn(fetch_opcode(vm))
  /\ ~last'.deferred
  /\ ~last'.fatal

\* the start position of a draw with registers vs, as the claims give it
StartColumn(vs) ==
  IF settings.sprite_wrapping_quirk THEN vs[FetchedX] % 64 ELSE vs[FetchedX]

StartRow(vs) ==
  IF settings.sprite_wrapping_quirk THEN vs[FetchedY] % 32 ELSE vs[FetchedY]

SpriteHeight == fetch_opcode(vm) % 16

\* bit (7 - c) of mem[I + r]
SpriteBit(r, c) == (Load(mem, i + r) \div (2 ^ (7 - c))) % 2

\* the rows r < n and columns c < 8 of the sprite that lie on the screen
OnScreen ==
  {rc \in (0 .. SpriteHeight - 1) \X (0 .. 7) :
     StartColumn(v) + rc[2] <= 63 /\ StartRow(v) + rc[1] <= 31}

CellOf(rc) == (StartRow(v) + rc[1]) * 64 + StartColumn(v) + rc[2]

\* the cells covered by an on bit of the sprite
CoveredCells == {CellOf(rc) : rc \in {q \in OnScreen : SpriteBit(q[1], q[2]) = 1}}

\* The second of two executed draws in succession of the same Dxyn from the
\* same start position.  A draw changes neither I nor the memory, so the
\* two draws have the same sprite; last holds the registers and the frame
\* buffer the first draw started from.
SecondDraw ==
  /\ DrawStep
  /\ last.kind = "cycle" /\ last.opcode = fetch_opcode(vm)
  /\ ~last.deferred /\ ~last.fatal
  /\ StartColumn(last.v) = StartColumn(v)
  /\ StartRow(last.v) = StartRow(v)

\* C14: the second of two draws in succession of the same sprite at the same
\* start position leaves the frame buffer equal to the one before the first
\* draw, for every frame buffer, sprite, height and start position.
C14_DoubleDrawRestores == [][SecondDraw => fb' = last.fb]_vars

\* two draws of two rows of the program's bytes at (60, 30) over the
\* checkerboard changed it and then restored it
C14_Witness ==
  /\ cycles = 2
  /\ last.kind = "cycle" /\ last.opcode = \hD012
  /\ ~last.deferred /\ ~last.fatal
  /\ v[0] = 60 /\ v[1] = 30
  /\ 1980 \in fb
  /\ last.fb # fb
  /\ fb \subseteq CornerCells /\ fb # CornerCells

\* C15 as stated: in a double draw, whenever some cell covered by an on bit
\* of the sprite was on before the first draw, VF = 1 after the second draw.
C15_SecondDrawCollides ==
  [][SecondDraw
     => (CoveredCells \cap last.fb # {} => v'[15] = 1)]_vars

\* C15 amended: in a double draw the second draw collides on the cells the
\* first draw turned on: VF = 1 after the second draw iff some cell covered
\* by an on bit of the sprite was off before the first draw, else VF = 0.
C15_SecondDrawCollidesOnFirstDrawn ==
  [][SecondDraw
     => v'[15] = IF CoveredCells \ last.fb # {} THEN 1 ELSE 0]_vars

\* two draws of two rows of the program's bytes at (60, 30) over the lit
\* corner: the first collided, the second found every covered cell off
C15_Witness ==
  /\ cycles = 2
  /\ last.kind = "cycle" /\ last.opcode = \hD012
  /\ ~last.deferred /\ ~last.fatal
  /\ v[0] = 60 /\ v[1] = 30
  /\ fb = CornerCells
  /\ last.fb # fb
  /\ last.v[15] = 1
  /\ v[15] = 0

\* C16: an executed Dxyn leaves each cell (x0 + c, y0 + r) of a row r < n
\* and a column c < 8 on the screen = its old value XOR bit (7 - c) of
\* mem[I + r], VF = 1 iff some cell went from on to off, else VF = 0, and
\* I and the memory as they were.
C16_DrawComposites ==
  [][DrawStep
     => /\ \A rc \in OnScreen :
             (CellOf(rc) \in fb')
               <=> ((CellOf(rc) \in fb) # (SpriteBit(rc[1], rc[2]) = 1))
        /\ v'[15] = IF fb \ fb' # {} THEN 1 ELSE 0
        /\ i' = i
        /\ mem' = mem]_vars

\* the first draw of two rows of the program's bytes (0xD0, 0x12) at (1, 1)
\* over the checkerboard: 0xD0 turned (1, 1) off and (2, 1) on, with a
\* collision
C16_Witness ==
  /\ cycles = 1
  /\ last.kind = "cycle" /\ last.opcode = \hD012
  /\ ~last.deferred /\ ~last.fatal
  /\ last.v[0] = 1 /\ last.v[1] = 1
  /\ 65 \in last.fb /\ 65 \notin fb
  /\ 66 \notin last.fb /\ 66 \in fb
  /\ v[15] = 1

\* the columns x0 .. min(x0 + 7, 63) and rows y0 .. min(y0 + n - 1, 31)
ClipBox ==
  {row * 64 + col :
     row \in StartRow(v) .. Min(StartRow(v) + SpriteHeight - 1, 31),
     col \in StartColumn(v) .. Min(StartColumn(v) + 7, 63)}

\* C17: with the start position (Vx mod 64, Vy mod 32) when the sprite
\* wrapping quirk is on and (Vx, Vy) when it is off, an executed Dxyn
\* changes no cell outside the columns x0 .. min(x0 + 7, 63) and the rows
\* y0 .. min(y0 + n - 1, 31); with the quirk off and Vx > 63 or Vy > 31 it
\* leaves the frame buffer as it was and VF = 0.
C17_DrawClips ==
  [][DrawStep
     => /\ \A cell \in 0 .. 2047 :
             (cell \in fb) # (cell \in fb') => cell \in ClipBox
        /\ (~settings.sprite_wrapping_quirk
              /\ (v[FetchedX] > 63 \/ v[FetchedY] > 31))
             => fb' = fb /\ v'[15] = 0]_vars

\* with the quirk off the first draw at (124, 30) left the lit corners as
\* they were, and with it on the draw at (60, 30) changed them
C17_Witness ==
  /\ cycles = 1
  /\ last.kind = "cycle" /\ last.opcode = \hD012
  /\ ~last.deferred /\ ~last.fatal
  /\ last.v[0] = 124 /\ last.v[1] = 30
  /\ last.fb = CornerCells
  /\ ~settings.sprite_wrapping_quirk
  /\ fb = last.fb
  /\ v[15] = 0

\* the cycle fetches 00E0 and its handler runs
ClearStep == CycleStep /\ fetch_opcode(vm) = \h00E0 /\ ~last'.deferred

\* C18: an executed 00E0 leaves all 2048 cells of the frame buffer off,
\* whatever it held, PC two further, and the registers, I, the memory and the
\* stack as they were; the timers change only by the end of the frame, when
\* the cycle ends it.
C18_ClearTurnsAllOff ==
  [][ClearStep
     => /\ \A cell \in 0 .. 2047 : cell \notin fb'
        /\ pc' = pc + 2
        /\ v' = v /\ i' = i /\ mem' = mem /\ stack' = stack
        /\ ~FrameEnds
             => delay_timer' = delay_timer /\ sound_timer' = sound_timer
        /\ FrameEnds
             => /\ delay_timer' = IF delay_timer > 0 THEN delay_timer - 1
                                  ELSE delay_timer
                /\ sound_timer' = IF sound_timer > 0 THEN sound_timer - 1
                                  ELSE sound_timer]_vars

\* 00E0 ran over the lit corners within the frame and left every cell off
\* and the timers as they were
C18_Witness ==
  /\ last.kind = "cycle" /\ last.opcode = \h00E0 /\ ~last.deferred
  /\ last.fb = CornerCells
  /\ fb = {}
  /\ ~draw_flag
  /\ delay_timer = 7
  /\ pc = last.pc + 2

\* C19: a cycle that fetches an opcode with high nibble 0 other than 00E0
\* and 00EE is never fatal, and when its operation is executed it moves PC
\* by 2 and leaves the memory, the registers, I, the stack and the frame
\* buffer as they were.
C19_LegacyCallIsNoOp ==
  [][(/\ CycleStep
      /\ fetch_opcode(vm) \div 4096 = 0
      /\ fetch_opcode(vm) \notin {\h00E0, \h00EE})
     => /\ ~last'.fatal
        /\ state' = "Running"
        /\ ~last'.deferred
             => /\ pc' = pc + 2
                /\ mem' = mem /\ v' = v /\ i' = i /\ stack' = stack
                /\ fb' = fb]_vars

\* the patterns of the operation table
InTable(opcode) ==
  LET high == opcode \div 4096
      n    == opcode % 16
      nn   == opcode % 256
  IN  CASE high \in {5, 9} -> n = 0
        [] high = 8 -> n \in (0 .. 7) \cup {14}
        [] high = 14 -> nn \in {\h9E, \hA1}
        [] high = 15 -> nn \in {\h07, \h0A, \h15, \h18, \h1E, \h29, \h33,
                                \h55, \h65}
        [] OTHER -> TRUE

\* C20: a cycle that fetches an opcode matching no pattern of the operation
\* table is fatal: the machine halts, and the memory, the registers, I, the
\* stack, the frame buffer and PC are as they were.
C20_UnknownOpcodeIsFatal ==
  [][(CycleStep /\ ~InTable(fetch_opcode(vm)))
     => /\ last'.fatal
        /\ state' = "Halted"
        /\ mem' = mem /\ v' = v /\ i' = i /\ stack' = stack /\ fb' = fb
        /\ pc' = pc]_vars

\* the opcodes decode_opcode_and_execute_operation gives to
\* invalid_operation, and those in no pattern of the operation table
UnknownOpcode(opcode) ==
  \/ ~InTable(opcode)
  \/ opcode \div 4096 = 0 /\ opcode % 256 \notin {\h00, \hE0, \hEE}

\* C21: the machine is Running or Halted; it goes from Running to Halted
\* only in a cycle whose fetch is out of the memory, whose opcode is unknown,
\* or whose opcode is 00EE with the stack empty, so no other operation,
\* whatever I holds, halts it; and Halted is never left.
C21_HaltsOnlyOnThreeCauses ==
  [][/\ state' \in {"Running", "Halted"}
     /\ state = "Halted" => state' = "Halted"
     /\ (state = "Running" /\ state' = "Halted")
          => /\ last'.kind = "cycle"
             /\ \/ ~FetchInBounds(vm)
                \/ UnknownOpcode(fetch_opcode(vm))
                \/ fetch_opcode(vm) = \h00EE /\ stack = << >>]_vars

\* C22: in every reachable state the call stack holds at most 16 return
\* addresses.
C22_StackHoldsAtMostSixteen == Len(stack) <= 16


\* C23: a cycle that fetches 00EE with the frame time leaving room for its
\* cost and with the stack empty is fatal: the machine halts with PC and the
\* stack as they were.
C23_ReturnOnEmptyStackIsFatal ==
  [][(/\ CycleStep
      /\ fetch_opcode(vm) = \h00EE
      /\ frame_time + Cost(settings, \h00EE) <= MAX_FRAME_TIME
      /\ stack = << >>)
     => /\ last'.fatal
        /\ state' = "Halted"
        /\ pc' = pc
        /\ stack' = stack]_vars

\* after two nested calls and their returns, the return at 0x202 found the
\* stack empty and halted the machine there
C23_Witness ==
  /\ state = "Halted"
  /\ last.kind = "cycle" /\ last.opcode = \h00EE /\ last.fatal
  /\ program_data = NestedCalls
  /\ pc = PROGRAM_START + 2
  /\ stack = << >>
  /\ cycles = 5


\* the cycle fetches 2nnn and its handler runs
CallStep ==
  /\ CycleStep
  /\ fetch_opcode(vm) \div 4096 = 2
  /\ ~last'.deferred

\* the cycle fetches 00EE and its handler runs to its end
ReturnStep ==
  /\ CycleStep
  /\ fetch_opcode(vm) = \h00EE
  /\ ~last'.deferred
  /\ ~last'.fatal

\* C30: a 2nnn executed at address a pushes a on the stack and sets PC =
\* nnn, and an executed 00EE pops the last entry pushed and sets PC to it
\* plus 2: the stack is last in, first out, so the return that matches a
\* call, after properly nested calls and returns in between, pops the a the
\* call pushed, sets PC = a + 2 and leaves the stack as it was before the
\* call.
C30_CallReturnRoundTrip ==
  [][/\ CallStep
          => /\ stack' = Append(stack, pc)
             /\ pc' = fetch_opcode(vm) % 4096
     /\ ReturnStep
          => /\ stack # << >>
             /\ pc' = stack[Len(stack)] + 2
             /\ stack' = SubSeq(stack, 1, Len(stack) - 1)]_vars

\* the call at 0x200, a call nested in it and its return, and then the
\* return that matches the first call: PC = 0x202 and the stack is empty as
\* before the first call
C30_Witness ==
  /\ program_data = NestedCalls
  /\ cycles = 4
  /\ last.kind = "cycle" /\ last.opcode = \h00EE
  /\ ~last.deferred /\ ~last.fatal
  /\ last.pc = PROGRAM_START + 6
  /\ pc = PROGRAM_START + 2
  /\ stack = << >>


\* 256 * mem[PC] + mem[PC + 1]
BigEndianWord == 256 * Load(mem, pc) + Load(mem, pc + 1)

\* the rows of the frame buffer with a cell the step changes
RowsChanged ==
  {cell \div 64 : cell \in (fb \ fb') \cup (fb' \ fb)}

\* C24: a cycle with PC + 1 <= 0xFFF fetches the opcode 256 * mem[PC] +
\* mem[PC + 1], and its operands are nn = opcode mod 256 and x = bits 8-11
\* (6xnn leaves Vx = nn), nnn = opcode mod 4096 (Annn leaves I = nnn),
\* y = bits 4-7 (8xy0 leaves Vx = Vy) and n = opcode mod 16 (Dxyn draws the
\* n rows of a glyph from row Vy mod 32 on); a cycle with PC + 1 > 0xFFF
\* is fatal and executes nothing.
C24_FetchAndDecode ==
  [][last'.kind = "cycle"
     => IF pc + 1 <= \h0FFF
        THEN /\ last'.opcode = BigEndianWord
             /\ (~last'.deferred /\ ~last'.fatal)
                  => LET opcode == BigEndianWord
                         n   == opcode % 16
                         nn  == opcode % 256
                         nnn == opcode % 4096
                         x   == (opcode \div 256) % 16
                         y   == (opcode \div 16) % 16
                     IN  /\ x \in 0 .. 15 /\ y \in 0 .. 15
                         /\ opcode \div 4096 = 6 => v'[x] = nn
                         /\ opcode \div 4096 = 10 => i' = nnn
                         /\ (opcode \div 4096 = 8 /\ n = 0) => v'[x] = v[y]
                         /\ (opcode \div 4096 = 13 /\ i = \h0050)
                              => RowsChanged
                                   = (v[y] % 32) .. ((v[y] % 32) + n - 1)
        ELSE /\ last'.fatal
             /\ state' = "Halted"
             /\ mem' = mem /\ v' = v /\ i' = i /\ stack' = stack
             /\ fb' = fb /\ pc' = pc
             /\ delay_timer' = delay_timer /\ sound_timer' = sound_timer]_vars

\* 8AB0 was fetched from the last two bytes of the memory and copied VB
\* into VA
C24_Witness ==
  /\ last.kind = "cycle" /\ last.opcode = \h8AB0
  /\ ~last.deferred /\ ~last.fatal
  /\ last.pc = \h0FFE
  /\ pc = \h1000
  /\ last.v[10] = 187 /\ v[10] = 204 /\ v[11] = 204

\* a cycle with PC = 0xFFF found the second byte out of the memory and
\* halted
C24_WitnessOutOfBounds ==
  /\ last.kind = "cycle" /\ last.fatal /\ last.pc = \h0FFF
  /\ state = "Halted"


\* the cycle fetches Fx55 (nn = 0x55) or Fx65 (nn = 0x65), its handler runs,
\* and I + x is within the memory
TransferStep(nn) ==
  /\ CycleStep
  /\ fetch_opcode(vm) \div 4096 = 15 /\ fetch_opcode(vm) % 256 = nn
  /\ ~last'.deferred
  /\ i + FetchedX <= \h0FFF

\* C25: with I0 + x within the memory, Fx55 leaves mem[I0 + k] = Vk for
\* every k in 0 .. x and every other memory cell and every register as it
\* was; Fx65 leaves Vk = mem[I0 + k] for every k in 0 .. x and every other
\* register and the memory as they were; both leave I = I0 + x + 1 with the
\* memory quirk on and I = I0 with it off.
C25_RegisterTransfer ==
  [][/\ TransferStep(\h55)
          => /\ \A k \in 0 .. FetchedX : Load(mem', i + k) = v[k]
             /\ \A a \in 0 .. MEM_LEN - 1 :
                  a \notin i .. i + FetchedX => Load(mem', a) = Load(mem, a)
             /\ v' = v
     /\ TransferStep(\h65)
          => /\ \A k \in 0 .. FetchedX : v'[k] = Load(mem, i + k)
             /\ \A k \in 0 .. 15 : k > FetchedX => v'[k] = v[k]
             /\ mem' = mem
     /\ (TransferStep(\h55) \/ TransferStep(\h65))
          => /\ ~last'.fatal
             /\ i' = IF settings.mem_quirk THEN i + FetchedX + 1 ELSE i]_vars

\* with the quirk off FF55 stored V0 .. VF at 0xFF0 .. 0xFFF and left I
C25_Witness ==
  /\ ~settings.mem_quirk
  /\ last.kind = "cycle" /\ last.opcode = \hFF55
  /\ ~last.deferred /\ ~last.fatal
  /\ i = \h0FF0
  /\ Load(mem, \h0FF0) = 17
  /\ Load(mem, \h0FFF) = 16
  /\ v[15] = 16


\* the cycle fetches Bnnn and its handler runs
JumpOffsetStep ==
  /\ CycleStep
  /\ fetch_opcode(vm) \div 4096 = 11
  /\ ~last'.deferred

\* C26: an executed Bnnn leaves PC = nnn + V0 with the jump offset quirk
\* off and PC = nnn + V[high nibble of nnn] with it on, the sum not reduced
\* to 12 bits, and the registers, the stack and the memory as they were;
\* the cycle after a Bnnn that left PC above 0xFFE is fatal.
C26_JumpWithOffset ==
  [][/\ JumpOffsetStep
          => LET nnn == fetch_opcode(vm) % 4096
             IN  /\ pc' = nnn + (IF settings.jump_offset_quirk
                                 THEN v[nnn \div 256] ELSE v[0])
                 /\ v' = v /\ stack' = stack /\ mem' = mem
     /\ (/\ last.kind = "cycle" /\ last.opcode \div 4096 = 11
         /\ ~last.deferred /\ ~last.fatal
         /\ last'.kind = "cycle"
         /\ pc > \h0FFE)
          => last'.fatal /\ state' = "Halted"]_vars

\* with the quirk on BFFF took PC to 0xFFF + VF = 0x10FE, past the 12 bits
\* of an address, and the next cycle halted there
C26_Witness ==
  /\ settings.jump_offset_quirk
  /\ v[0] = 0 /\ v[15] = 255
  /\ pc = \h10FE
  /\ last.kind = "cycle" /\ last.fatal /\ last.pc = \h10FE
  /\ state = "Halted"
  /\ cycles = 2


\* C27: a shadow flag is cleared once 30 ms have passed since the release
\* of its key, whether or not a cycle runs: when a cycle fetches Fx0A, whose
\* handler reads the shadow flags, every key whose shadow flag is set was
\* released less than 30 ms before.
C27_ShadowClearsAfterRelease ==
  [][(CycleStep /\ IsFx0A(fetch_opcode(vm)))
     => \A k \in 0 .. 15 :
          keypad_shadow[k]
            => keypad_shadow_timers[k] < KEYUP_RELEASE_DURATION]_vars


\* everything of the machine but the key flags is as it was
KeysApart ==
  /\ mem' = mem /\ v' = v /\ i' = i /\ stack' = stack /\ pc' = pc
  /\ delay_timer' = delay_timer /\ sound_timer' = sound_timer
  /\ fb' = fb /\ draw_flag' = draw_flag /\ frame_time' = frame_time
  /\ font_locations' = font_locations /\ settings' = settings
  /\ state' = state

\* C28: for every key k in 0 .. F, key 0 among them, a key-down event of k
\* sets current[k] and changes nothing else; a key-up event of k clears
\* current[k], sets shadow[k] and restarts the release timer of k, and
\* changes no flag or timer of another key, and nothing else.
C28_KeyEvents ==
  [][/\ last'.kind = "keydown"
          => /\ last'.key \in 0 .. 15
             /\ keypad' = [keypad EXCEPT ![last'.key] = TRUE]
             /\ keypad_shadow' = keypad_shadow
             /\ keypad_shadow_timers' = keypad_shadow_timers
             /\ KeysApart
     /\ last'.kind = "keyup"
          => /\ last'.key \in 0 .. 15
             /\ keypad' = [keypad EXCEPT ![last'.key] = FALSE]
             /\ keypad_shadow' = [keypad_shadow EXCEPT ![last'.key] = TRUE]
             /\ keypad_shadow_timers'
                  = [keypad_shadow_timers EXCEPT ![last'.key] = 0]
             /\ KeysApart]_vars

\* key 0 went up while key 1 was down and key 2 had been released before:
\* its flags and timer changed and those of the keys 1 and 2 did not
C28_Witness ==
  /\ last.kind = "keyup" /\ last.key = 0
  /\ ~keypad[0] /\ keypad_shadow[0] /\ keypad_shadow_timers[0] = 0
  /\ keypad[1] /\ ~keypad_shadow[1]
  /\ keypad_shadow[2] /\ keypad_shadow_timers[2] = SinceRelease


\* the cycle fetches Ex9E (nn = 0x9E) or ExA1 (nn = 0xA1) and its handler
\* runs
SkipKeyStep(nn) ==
  /\ CycleStep
  /\ fetch_opcode(vm) \div 4096 = 14 /\ fetch_opcode(vm) % 256 = nn
  /\ ~last'.deferred

\* C29: Ex9E moves PC by 4 if current[Vx AND 0xF] is set and by 2
\* otherwise, ExA1 by 4 if it is not set and by 2 otherwise, for every Vx
\* in 0 .. 255; the shadow flags are not consulted (they only expire, as in
\* every cycle), and no register and no current flag changes.
C29_SkipOnKey ==
  [][/\ SkipKeyStep(\h9E)
          => pc' = IF keypad[v[FetchedX] % 16] THEN pc + 4 ELSE pc + 2
     /\ SkipKeyStep(\hA1)
          => pc' = IF ~keypad[v[FetchedX] % 16] THEN pc + 4 ELSE pc + 2
     /\ (SkipKeyStep(\h9E) \/ SkipKeyStep(\hA1))
          => /\ v' = v
             /\ keypad' = keypad
             /\ keypad_shadow'
                  = ExpireShadows(keypad_shadow, keypad_shadow_timers')]_vars

\* E09E with V0 = 0xF3 skipped on key 3, which was down with its shadow
\* flag clear, every other key being up with its shadow flag set
C29_Witness ==
  /\ last.kind = "cycle" /\ last.opcode = \hE09E /\ ~last.deferred
  /\ v[0] = 243
  /\ keypad[3] /\ ~keypad[15] /\ ~keypad[0]
  /\ pc = last.pc + 4


(***************************************************************************)
(* Fx0A and the release of a key                                           *)
(*                                                                         *)
(* The program waits for a key at 0x200 and then stays at 0x202.  The      *)
(* frame is anywhere around the point where Fx0A stops fitting it when the *)
(* program starts; the user presses keys and releases the keys that are    *)
(* down.                                                                   *)
(***************************************************************************)
\* F00A, 1202: wait for a key, then jump to the jump
WaitOnce == << \hF0, \h0A, \h12, \h02 >>

BootAround(programs) ==
  /\ \E p \in programs :
       \E t \in FrameTimesAround(DefaultSettings, \hF00A) :
         /\ Loadable(DefaultSettings, p)
         /\ Holds([initialize(DefaultSettings, p) EXCEPT !.frame_time = t])
         /\ program_data = p
  /\ keypad_shadow_timers = [k \in 0 .. 15 |-> 0]
  /\ state = "Running"
  /\ last = Did("init")
  /\ cycles = 0

\* Event::KeyUp of a key that is down
Release == (\E key \in Keys : keypad[key] /\ KeyUpOf({key})) /\ UNCHANGED cycles

WaitNext == Cycle \/ KeyDown \/ Release \/ Render

SpecWait == BootAround({WaitOnce}) /\ [][WaitNext]_vars

\* The main loop keeps calling simulate_operation_cycle and renders the
\* frame in the iteration that raised the draw flag.
FairSpecWait ==
  /\ SpecWait
  /\ WF_vars(Render)
  /\ (<>[]CycleEnabled) => []<><<Cycle>>_vars

\* C31: a key released while PC is at the Fx0A, and no key pressed after it,
\* leads to the Fx0A storing a key and advancing PC.
C31_ReleaseCompletesWait ==
  (program_data = WaitOnce /\ pc = PROGRAM_START /\ last.kind = "keyup")
    ~> (pc = PROGRAM_START + 2 \/ last.kind = "keydown")


\* C32: a cycle that ends in a fatal condition leaves the memory, the
\* registers, I, the frame buffer, the stack and PC as they were when the
\* cycle started.
C32_FatalLeavesMachine ==
  [][(last'.kind = "cycle" /\ last'.fatal)
       => /\ mem' = mem
          /\ v' = v
          /\ i' = i
          /\ fb' = fb
          /\ stack' = stack
          /\ pc' = pc]_vars


(***************************************************************************)
(* Fx33 on every value of Vx                                               *)
(***************************************************************************)
\* I in the font, on the last byte before the program, on the instruction
\* itself, and on the last three bytes of the memory
BcdIndexes == {\h0050, \h01FF, PROGRAM_START, MEM_LEN - 3}

BcdCases(s) ==
  {[BusyCase(s, \hF033 + 256 * x, 0, index) EXCEPT
      !.v = [r \in 0 .. 15 |-> IF r = x THEN a ELSE 170]] :
     x \in Registers, a \in Bytes, index \in BcdIndexes}

SpecBcd == Start(BcdCases(DefaultSettings)) /\ [][OpCycle]_vars

\* the cycle executes the Fx33 it fetches
BcdStep ==
  /\ CycleStep
  /\ fetch_opcode(vm) \div 4096 = 15
  /\ fetch_opcode(vm) % 256 = \h33
  /\ ~last'.deferred

\* C33: Fx33 with I + 2 in the memory leaves three decimal digits at I, I + 1
\* and I + 2 that make up Vx, hundreds first, and changes no other cell of
\* the memory, no register and not I.
C33_BcdDigitsMakeVx ==
  [][(BcdStep /\ i + 2 < MEM_LEN)
       => /\ \A a \in i .. i + 2 : Load(mem', a) \in 0 .. 9
          /\ 100 * Load(mem', i) + 10 * Load(mem', i + 1) + Load(mem', i + 2)
               = v[FetchedX]
          /\ \A a \in 0 .. MEM_LEN - 1 :
               a \notin i .. i + 2 => Load(mem', a) = Load(mem, a)
          /\ v' = v
          /\ i' = i]_vars

\* Fx33 wrote 2, 5, 5 over its own instruction for VF = 255
C33_Witness ==
  /\ last.kind = "cycle" /\ ~last.deferred /\ ~last.fatal
  /\ last.opcode = \hFF33
  /\ i = PROGRAM_START
  /\ v[15] = 255
  /\ Load(mem, i) = 2 /\ Load(mem, i + 1) = 5 /\ Load(mem, i + 2) = 5


(***************************************************************************)
(* The font at every base address                                          *)
(***************************************************************************)
\* font_memory_starting_location: the first address, the default, the last
\* address from which the 80 bytes end below the program, the one after it,
\* the last address below the program, and the last address from which the
\* 80 bytes end inside the memory
FontBases == {0, \h0050, \h01B0, \h01B1, \h01FF, MEM_LEN - 80}

\* Fx29 on every value of Vx with the font at each of the bases
FontCases(bases) ==
  {[BusyCase([DefaultSettings EXCEPT !.font_memory_starting_location = base],
             \hF029 + 256 * x, 0, 0) EXCEPT
      !.v = [r \in 0 .. 15 |-> IF r = x THEN a ELSE 170]] :
     base \in bases, x \in Registers, a \in Bytes}

SpecFont == Start(FontCases(FontBases)) /\ [][OpCycle]_vars

\* the 80 bytes of the font end below the program, entry d of the table is
\* base + 5 * d and the five bytes there are the rows of the glyph of d
FontInPlace ==
  LET base == settings.font_memory_starting_location
  IN  /\ base + Len(FONT_DATA) <= PROGRAM_START
      /\ \A d \in 0 .. 15 :
           /\ font_locations[d] = base + 5 * d
           /\ \A row \in 0 .. 4 :
                Load(mem, font_locations[d] + row) = FONT_DATA[5 * d + row + 1]

\* the cycle executes the Fx29 it fetches
FontStep ==
  /\ CycleStep
  /\ fetch_opcode(vm) \div 4096 = 15
  /\ fetch_opcode(vm) % 256 = \h29
  /\ ~last'.deferred

\* C34: for every font base address, the machine initialize builds has the
\* font below the program with entry d of the font table at base + 5 * d
\* and the rows of the glyph of d there; and Fx29 sets I to the entry of the
\* digit Vx AND 0xF.
C34_FontBelowProgram ==
  /\ [](last.kind = "init" => FontInPlace)
  /\ [][FontStep => i' = font_locations[BitAnd(v[FetchedX], 15)]]_vars


(***************************************************************************)
(* Cxnn on every random byte                                               *)
(***************************************************************************)
\* nn: no bit, one bit, each nibble, every other bit, every bit
RandomMasks == {0, 1, \h0F, \hF0, \hAA, \hFF}

\* Cxnn at the start of a frame and at the end of one, where it is deferred
RandomCases(s) ==
  {BusyCase(s, \hC000 + 256 * x + nn, time, 0) :
     x \in Registers, nn \in RandomMasks, time \in {0, MAX_FRAME_TIME}}

SpecRandom == Start(RandomCases(DefaultSettings)) /\ [][OpCycle]_vars

\* the cycle executes the Cxnn it fetches
RandomStep ==
  /\ CycleStep
  /\ fetch_opcode(vm) \div 4096 = 12
  /\ ~last'.deferred

\* Cxnn is about to be fetched and fits the frame
AboutToRandom ==
  /\ state = "Running" /\ ~draw_flag /\ cycles < MaxCycles
  /\ FetchInBounds(vm)
  /\ fetch_opcode(vm) \div 4096 = 12
  /\ frame_time + Cost(settings, fetch_opcode(vm)) <= MAX_FRAME_TIME

\* C35: Cxnn leaves in Vx no bit that is not in nn and changes no other
\* register; and every value r AND nn, r in 0 .. 255, is an outcome the cycle
\* can have.
C35_RandomWithinMask ==
  /\ [][RandomStep
          => /\ BitAnd(v'[FetchedX], 255 - (fetch_opcode(vm) % 256)) = 0
             /\ \A r \in 0 .. 15 : r # FetchedX => v'[r] = v[r]]_vars
  /\ [](AboutToRandom
          => \A outcome \in {BitAnd(r, fetch_opcode(vm) % 256) : r \in Bytes} :
               \E elapsed \in ElapsedTimes, random \in RandomBytes :
                 simulate_operation_cycle(vm, elapsed, Aged(elapsed),
                                          random).vm.v[FetchedX] = outcome)

\* CFAA drew 0xA0 of the random byte 0xF5 into VF
C35_Witness ==
  /\ last.kind = "cycle" /\ ~last.deferred
  /\ last.opcode = \hCFAA
  /\ v[15] = \hA0
  /\ last.v[15] = 16


(***************************************************************************)
(* Two Fx0A in a row                                                       *)
(***************************************************************************)
\* F00A, F10A, 1204: wait for a key into V0, for a key into V1, then stay
TwoWaits == << \hF0, \h0A, \hF1, \h0A, \h12, \h04 >>

\* an iteration of the main loop, short or long, of two
WaitCycle ==
  /\ cycles < MaxCycles + 1
  /\ CycleTaking(ShortTimes \cup ElapsedTimes)
  /\ cycles' = cycles + 1

\* two iterations of the main loop among the events of the user and the
\* renders
SpecTwoWaits ==
  BootAround({TwoWaits}) /\ [][WaitCycle \/ KeyDown \/ Release \/ Render]_vars

\* the last step was a cycle in which an Fx0A stored a key and advanced PC
WaitCompleted ==
  /\ last.kind = "cycle"
  /\ IsFx0A(last.opcode)
  /\ ~last.deferred
  /\ pc = last.pc + 2

\* C36: the cycle right after the one in which an Fx0A stored a key, no key
\* event between the two, does not complete another Fx0A.
C36_ReleaseSatisfiesOneWait ==
  [][(WaitCompleted /\ CycleStep /\ IsFx0A(fetch_opcode(vm))) => pc' = pc]_vars


(***************************************************************************)
(* The flag register as the destination                                    *)
(***************************************************************************)
\* the values of Vy that matter to the flag of the operation on Vx = a: on
\* both sides of the carry for 8xy4, on both sides of the borrow for 8xy5
\* and 8xy7, the complement of a for the shifts
FlagOperands(base, a) ==
  CASE base = \h8004 -> {255 - a, (256 - a) % 256}
    [] base \in {\h8005, \h8007} -> {(a + 255) % 256, a, (a + 1) % 256}
    [] OTHER -> {255 - a}

\* 8Fy4, 8Fy5, 8Fy7 and, with the shift quirk as given, 8Fy6 and 8FyE, on
\* every value a of VF, for the registers 0, 1 and F as y.
FlagCases(quirks) ==
  UNION {UNION {{RegisterCase([DefaultSettings EXCEPT
                                  !.shift_quirk = quirk],
                               base, 15, y, a, b) :
                    b \in IF y = 15 THEN {a} ELSE FlagOperands(base, a)} :
                 base \in IF quirk THEN {\h8006, \h800E}
                          ELSE {\h8004, \h8005, \h8006, \h8007, \h800E},
                 y \in Registers, a \in Bytes} :
         quirk \in quirks}

SpecFlag == Start(FlagCases(BOOLEAN)) /\ [][OpCycle]_vars

\* the cycle executes an 8xy4, 8xy5, 8xy6, 8xy7 or 8xyE with x = F
FlagDestinationStep ==
  /\ CycleStep
  /\ \E n \in {4, 5, 6, 7, 14} : Is8xy(fetch_opcode(vm), n)
  /\ FetchedX = 15
  /\ ~last'.deferred

\* the flag of the operation, of the values the operands have before it
FlagOfOperands ==
  CASE Is8xy(fetch_opcode(vm), 4) -> Carry
    [] Is8xy(fetch_opcode(vm), 5) \/ Is8xy(fetch_opcode(vm), 7) ->
         IF Minuend >= Subtrahend THEN 1 ELSE 0
    [] OTHER -> ShiftedOut

\* C37: 8xy4, 8xy5, 8xy6, 8xy7 and 8xyE with x = F leave in VF the flag (0 or
\* 1) of the values the operands had before the operation, not the result.
C37_FlagOverwritesResult ==
  [][FlagDestinationStep
       => /\ v'[15] = FlagOfOperands
          /\ v'[15] \in {0, 1}]_vars

\* 8F14 added VF = 200 and V1 = 56: the sum is 0 and VF holds the carry 1
C37_Witness ==
  /\ last.kind = "cycle" /\ last.opcode = \h8F14 /\ ~last.deferred
  /\ last.v[15] = 200
  /\ last.v[1] = 56
  /\ v[15] = 1


(***************************************************************************)
(* The frame time over many short cycles                                   *)
(***************************************************************************)
\* an iteration of the main loop, short or long
FrameCycle == CycleTaking(ShortTimes \cup ElapsedTimes) /\ UNCHANGED cycles

\* the program 00E0, 1200 at each speed, the user resetting the machine at
\* any time
SpecFrames ==
  Boot(SpeedMultiples, {ClearLoop}) /\ [][FrameCycle \/ Reset \/ Render]_vars

\* the frame time of the cycle before the frame may end: what it was, the
\* cost of the operation (0 if deferred), the elapsed time
Accumulated ==
  frame_time + (IF last'.deferred THEN 0 ELSE last'.cost) + last'.elapsed

\* C38: the frame time is between 0 and MAX_FRAME_TIME after every cycle: 0
\* when the cycle crossed the end of the frame, else what it was plus the
\* cost of the executed operation (0 if deferred) plus the elapsed time; and
\* reset leaves it as it is.
C38_FrameTimeAccumulates ==
  /\ [](frame_time \in 0 .. MAX_FRAME_TIME)
  /\ [][(last'.kind = "cycle" /\ ~last'.fatal)
          => frame_time' = IF Accumulated > MAX_FRAME_TIME
                           THEN 0 ELSE Accumulated]_vars
  /\ [][last'.kind = "reset" => frame_time' = frame_time]_vars

\* the jump of a short cycle added its cost and a millisecond to a frame
\* time of more than ten milliseconds
C38_Witness ==
  /\ last.kind = "cycle" /\ ~last.deferred
  /\ last.opcode = \h1200
  /\ last.frame_time > 10000000
  /\ last.cost > 0
  /\ frame_time = last.frame_time + last.cost + 1000000

====
